---- MODULE Spec2Model ----
(***************************************************************************)
(* Model of the clustering core of the omnichannel backend:                *)
(*   backend/semantic/embeddings.py   cosine_similarity, get_embeddings    *)
(*   backend/semantic/clustering.py   cluster_inputs, cluster_inputs_      *)
(*                                    advanced, cluster_inputs_with_history*)
(*   backend/history/memory_store.py  the per-session history store        *)
(*   backend/api/input.py             input_unified, the request handler   *)
(*                                                                         *)
(* Numbers.  The code compares a cosine similarity (a float) with a        *)
(* threshold (0.4, 0.5, 0.6).  Embeddings are modelled as integer vectors  *)
(* and thresholds in hundredths, so that  cos(u,v) >= t  is decided        *)
(* exactly in integer arithmetic (CosGE).                                  *)
(***************************************************************************)
EXTENDS Integers, Sequences, FiniteSets, Bags, TLC

VARIABLES
    sessions,   \* history_store._sessions: session id -> Session Record
    requests,   \* number of input_unified requests handled so far
    call,       \* the call under way or last made: its arguments, the
                \* embeddings it was given and what it returned
    cache,      \* embeddings._embedding_cache: cache key -> embeddings
    log         \* the direct calls of cluster_inputs completed so far, in
                \* order

vars == <<sessions, requests, call, cache, log>>

(***************************************************************************)
(* Bounds of the model.                                                    *)
(***************************************************************************)
MaxItems == 3       \* longest batch handed to cluster_inputs[_advanced]
MaxNew == 2         \* longest batch handed to cluster_inputs_with_history
MaxPrev == 2        \* most previous clusters handed to it
MaxRequests == 2    \* requests handled in one run of the request handler

(***************************************************************************)
(* Small helpers.                                                          *)
(***************************************************************************)
Range(s) == {s[i] : i \in 1..Len(s)}

SeqsUpTo(S, n) == UNION {[1..k -> S] : k \in 0..n}

\* Python's max(..., default=d) over a finite set of integers
MaxOf(S, d) == IF S = {} THEN d ELSE CHOOSE m \in S : \A x \in S : x <= m

\* the multiset of the elements of a sequence
BagOfSeq(s) == [x \in Range(s) |-> Cardinality({i \in 1..Len(s) : s[i] = x})]

RECURSIVE Ascending(_)
\* the elements of a finite set of integers in increasing order
Ascending(S) ==
    IF S = {} THEN <<>>
    ELSE LET m == CHOOSE x \in S : \A y \in S : x <= y
         IN  <<m>> \o Ascending(S \ {m})

RECURSIVE Flatten(_)
\* concatenation of a sequence of sequences
Flatten(ss) == IF ss = <<>> THEN <<>> ELSE Head(ss) \o Flatten(Tail(ss))

RECURSIVE Join(_, _)
\* Python's sep.join(texts)
Join(sep, texts) ==
    IF texts = <<>> THEN ""
    ELSE IF Len(texts) = 1 THEN texts[1]
    ELSE texts[1] \o sep \o Join(sep, Tail(texts))

(***************************************************************************)
(* Embeddings (embeddings.py).  The sentence-transformer is an external    *)
(* model: what it returns for a text is an input of the program.  Vecs is  *)
(* the set of vectors it may return here; their pairwise cosines are       *)
(*   V1.V2 = 3/5   V1.V3 = 2/5   V1.V4 = 1/6                               *)
(*   V2.V3 = 2/25  V2.V4 = 1/2   V3.V4 = -7/30                             *)
(* and 1 of a vector with itself, so every side of the thresholds 0.4, 0.5 *)
(* and 0.6, and each of them exactly, occurs, as do two vectors that are   *)
(* similar to a third and not to each other (V1, V4 with V2) and two that  *)
(* are similar neither to each other nor to a third (V3, V4 with V1 at     *)
(* 0.6).  The norms are integers (1, 5, 5, 6), so the float division of    *)
(* the code is exact on them as well.                                      *)
(***************************************************************************)
V1 == <<0, 0, 0, 1>>
V2 == <<0, 0, 4, 3>>
V3 == <<4, -2, -1, 2>>
V4 == <<1, 5, 3, 1>>
Vecs == {V1, V2, V3, V4}

\* np.dot(emb1, emb2)
Dot(u, v) == u[1]*v[1] + u[2]*v[2] + u[3]*v[3] + u[4]*v[4]

\* cosine_similarity(u, v) >= t/100, t in hundredths.  A zero norm makes the
\* code's quotient NaN, and every comparison with NaN is false.
CosGE(u, v, t) ==
    LET d == Dot(u, v)
        nn == Dot(u, u) * Dot(v, v)     \* (|u| |v|)^2
    IN  /\ nn > 0
        /\ IF t >= 0
           THEN d >= 0 /\ 10000 * d * d >= t * t * nn
           ELSE d >= 0 \/ 10000 * d * d <= t * t * nn

\* the cache key of a batch, line 20.  The md5 digest is taken to be
\* injective: two batches have one key iff their joined texts are equal.
CacheKey(texts) == Join("|", texts)

\* model.encode(texts): one vector per text, in order, as the external model
\* (a function from texts to vectors) computes them
Encode(model, texts) == [i \in 1..Len(texts) |-> model[texts[i]]]

\* get_embeddings(texts) with the cache as it finds it: what it returns,
\* whether the cache served it, and the cache it leaves
GetEmbeddings(cached, model, texts) ==
    LET cache_key == CacheKey(texts)
    IN  IF cache_key \in DOMAIN cached
        THEN [embeddings |-> cached[cache_key], hit |-> TRUE, cache |-> cached]
        ELSE [embeddings |-> Encode(model, texts), hit |-> FALSE,
              cache |-> [k \in DOMAIN cached \cup {cache_key} |->
                            IF k = cache_key THEN Encode(model, texts)
                            ELSE cached[k]]]

(***************************************************************************)
(* Items (clustering.py, InputItem) and the texts they carry.              *)
(***************************************************************************)
InputTypes == {"text", "audio", "document"}
Texts == {"", "a", "b", "c"}

InputItem(input_type, normalized_text, original_data) ==
    [input_type |-> input_type, normalized_text |-> normalized_text,
     original_data |-> original_data]

\* texts = [item.normalized_text for item in inputs]
TextsOf(inputs) == [i \in 1..Len(inputs) |-> inputs[i].normalized_text]

(***************************************************************************)
(* cluster_inputs (clustering.py 14-69).                                   *)
(***************************************************************************)
SIMILARITY_THRESHOLD == 50

\* a mutant of IsSimilar: j is compared with the opener of the cluster only
IsSimilarToFirst(embeddings, cluster_indices, j) ==
    CosGE(embeddings[cluster_indices[1]], embeddings[j], SIMILARITY_THRESHOLD)

\* a mutant of IsSimilar: j is compared with the member that joined last only
IsSimilarToLast(embeddings, cluster_indices, j) ==
    CosGE(embeddings[cluster_indices[Len(cluster_indices)]], embeddings[j],
          SIMILARITY_THRESHOLD)

\* is_similar = any(similarity_matrix[cluster_idx][j] >= SIMILARITY_THRESHOLD
\*                  for cluster_idx in cluster_indices)
IsSimilar(embeddings, cluster_indices, j) ==
    \E k \in 1..Len(cluster_indices) :
        CosGE(embeddings[cluster_indices[k]], embeddings[j], SIMILARITY_THRESHOLD)

\* a mutant of MarkUsed: the index is not recorded as used
MarkUsedForgotten(used, j) == used

\* used.add(j), line 65
MarkUsed(used, j) == used \cup {j}

RECURSIVE ScanLater(_, _, _, _)
\* the inner loop  for j in range(i + 1, n)  from j on: the indices of the
\* cluster and the set of used indices when it ends
ScanLater(embeddings, cluster_indices, used, j) ==
    IF j > Len(embeddings)
    THEN [cluster_indices |-> cluster_indices, used |-> used]
    ELSE IF j \in used
    THEN ScanLater(embeddings, cluster_indices, used, j + 1)
    ELSE IF IsSimilar(embeddings, cluster_indices, j)
    THEN ScanLater(embeddings, Append(cluster_indices, j), MarkUsed(used, j), j + 1)
    ELSE ScanLater(embeddings, cluster_indices, used, j + 1)

RECURSIVE OpenClusters(_, _, _, _)
\* the outer loop  for i in range(n)  from i on: the clusters, as sequences
\* of indices into inputs
OpenClusters(embeddings, clusters, used, i) ==
    IF i > Len(embeddings) THEN clusters
    ELSE IF i \in used THEN OpenClusters(embeddings, clusters, used, i + 1)
    ELSE LET grown == ScanLater(embeddings, <<i>>, used \cup {i}, i + 1)
         IN  OpenClusters(embeddings, Append(clusters, grown.cluster_indices),
                          grown.used, i + 1)

RECURSIVE Reachable(_, _, _)
\* the indices of free linked to a member of S through any chain of similar
\* items, with S
Reachable(embeddings, S, free) ==
    LET more == {j \in free \ S :
                    \E m \in S : CosGE(embeddings[m], embeddings[j], SIMILARITY_THRESHOLD)}
    IN  IF more = {} THEN S ELSE Reachable(embeddings, S \cup more, free)

RECURSIVE OpenComponents(_, _, _, _)
OpenComponents(embeddings, clusters, used, i) ==
    IF i > Len(embeddings) THEN clusters
    ELSE IF i \in used THEN OpenComponents(embeddings, clusters, used, i + 1)
    ELSE LET S == Reachable(embeddings, {i}, (1..Len(embeddings)) \ used)
         IN  OpenComponents(embeddings, Append(clusters, Ascending(S)),
                            used \cup S, i + 1)

\* a mutant of IndexClusters: every item linked to a group through any chain
\* of similar items joins it, whatever the arrival order (the scan is
\* repeated until nothing joins)
IndexClustersConnected(embeddings) == OpenComponents(embeddings, <<>>, {}, 1)

\* the index clusters of a batch of n >= 2 items with these embeddings
IndexClusters(embeddings) == OpenClusters(embeddings, <<>>, {}, 1)

\* a mutant of ClusterInputs: the early returns of lines 18-22 are left out
ClusterInputsAlwaysEmbeds(cached, model, inputs) ==
    LET got == GetEmbeddings(cached, model, TextsOf(inputs))
    IN  [embed_calls |-> <<TextsOf(inputs)>>,
         embeddings |-> got.embeddings,
         groups |-> IF Len(got.embeddings) < Len(inputs) THEN <<>>
                    ELSE IndexClusters(SubSeq(got.embeddings, 1, Len(inputs))),
         hit |-> got.hit,
         cache |-> got.cache,
         raised |-> Len(got.embeddings) < Len(inputs)]

\* a mutant of ClusterInputs: embeddings served from the cache are not
\* clustered, every item is left alone
ClusterInputsSplitsOnHit(cached, model, inputs) ==
    IF Len(inputs) <= 1
    THEN [embed_calls |-> <<>>, embeddings |-> <<>>,
          groups |-> [i \in 1..Len(inputs) |-> <<i>>],
          hit |-> FALSE, cache |-> cached, raised |-> FALSE]
    ELSE LET got == GetEmbeddings(cached, model, TextsOf(inputs))
         IN  [embed_calls |-> <<TextsOf(inputs)>>,
              embeddings |-> got.embeddings,
              groups |-> IF Len(got.embeddings) < Len(inputs) THEN <<>>
                         ELSE IF got.hit THEN [i \in 1..Len(inputs) |-> <<i>>]
                         ELSE IndexClusters(SubSeq(got.embeddings, 1, Len(inputs))),
              hit |-> got.hit,
              cache |-> got.cache,
              raised |-> Len(got.embeddings) < Len(inputs)]

\* cluster_inputs(inputs) as a record: the batches it asked embeddings for,
\* the embeddings it got and the clusters, each a sequence of indices into
\* inputs (the code returns the items at these indices).  Embeddings with
\* fewer rows than there are inputs make embeddings[j] of line 34 raise
\* IndexError; rows beyond the inputs are never read.
ClusterInputs(cached, model, inputs) ==
    IF Len(inputs) = 0
    THEN [embed_calls |-> <<>>, embeddings |-> <<>>, groups |-> <<>>,
          hit |-> FALSE, cache |-> cached, raised |-> FALSE]
    ELSE IF Len(inputs) = 1
    THEN [embed_calls |-> <<>>, embeddings |-> <<>>, groups |-> << <<1>> >>,
          hit |-> FALSE, cache |-> cached, raised |-> FALSE]
    ELSE LET got == GetEmbeddings(cached, model, TextsOf(inputs))
         IN  [embed_calls |-> <<TextsOf(inputs)>>,
              embeddings |-> got.embeddings,
              groups |-> IF Len(got.embeddings) < Len(inputs) THEN <<>>
                         ELSE IndexClusters(SubSeq(got.embeddings, 1, Len(inputs))),
              hit |-> got.hit,
              cache |-> got.cache,
              raised |-> Len(got.embeddings) < Len(inputs)]

\* the items at a sequence of indices
ItemsAt(inputs, indices) == [k \in 1..Len(indices) |-> inputs[indices[k]]]

(***************************************************************************)
(* cluster_inputs_advanced (clustering.py 71-98).  A cluster is a Python   *)
(* dict, here a record; input_types, a list(set(...)) whose order is       *)
(* unspecified, is a set.                                                  *)
(***************************************************************************)
\* the dict stored for an item (lines 86-91 and 166-171)
ClusterItem(item) ==
    [input_type |-> item.input_type,
     text_preview |-> item.normalized_text,
     normalized_text |-> item.normalized_text,
     original_data |-> item.original_data]

ClusterItems(items) == [k \in 1..Len(items) |-> ClusterItem(items[k])]

\* set(item.input_type for item in items)
InputTypesOf(items) == {items[k].input_type : k \in 1..Len(items)}

\* the cluster dict built for the idx-th (0-based) group
ClusterDict(idx, items) ==
    [bucket_id |-> idx,
     items |-> ClusterItems(items),
     item_count |-> Len(items),
     input_types |-> InputTypesOf(items)]

\* cluster_inputs_advanced(inputs, threshold): the threshold parameter is
\* accepted and never used (line 78 calls cluster_inputs(inputs))
ClusterInputsAdvanced(cached, model, inputs, threshold) ==
    LET c == ClusterInputs(cached, model, inputs)
    IN  [embed_calls |-> c.embed_calls,
         embeddings |-> c.embeddings,
         groups |-> c.groups,
         result |-> [g \in 1..Len(c.groups) |->
                        ClusterDict(g - 1, ItemsAt(inputs, c.groups[g]))],
         cache |-> c.cache,
         raised |-> c.raised]

(***************************************************************************)
(* cluster_inputs_with_history (clustering.py 101-193).                    *)
(***************************************************************************)
\* " ".join(item.get('normalized_text', item.get('text_preview', ''))
\*          for item in cluster.get('items', []))
ClusterText(cluster) ==
    Join(" ", [k \in 1..Len(cluster.items) |-> cluster.items[k].normalized_text])

\* cosine_similarity(u, v) > t/100
CosGT(u, v, t) ==
    /\ CosGE(u, v, t)
    /\ ~(/\ Dot(u, v) * t >= 0
         /\ 10000 * Dot(u, v) * Dot(u, v) = t * t * Dot(u, u) * Dot(v, v))

\* a mutant of Matches: a similarity equal to the threshold is no match
MatchesStrictly(new_embeddings, cluster_embedding, assigned, threshold, i) ==
    /\ ~assigned[i]
    /\ CosGT(new_embeddings[i], cluster_embedding, threshold)

\* a mutant of Matches: an input already assigned to an earlier cluster is
\* matched again
MatchesIgnoringAssigned(new_embeddings, cluster_embedding, assigned, threshold, i) ==
    CosGE(new_embeddings[i], cluster_embedding, threshold)

\* lines 152-157: input i is taken by the cluster under examination
Matches(new_embeddings, cluster_embedding, assigned, threshold, i) ==
    /\ ~assigned[i]
    /\ CosGE(new_embeddings[i], cluster_embedding, threshold)

\* lines 150-159: the indices of the inputs the cluster takes, in input
\* order; zip(inputs, new_embeddings) stops at the shorter of the two
MatchedIndices(new_embeddings, cluster_embedding, assigned, threshold) ==
    Ascending({i \in 1..Len(assigned) \cap 1..Len(new_embeddings) :
                  Matches(new_embeddings, cluster_embedding, assigned, threshold, i)})

\* a mutant of UpdatedCluster: lines 172-175 are left out
UpdatedClusterStale(cluster, matched) ==
    [cluster EXCEPT !.items = cluster.items \o ClusterItems(matched)]

\* a mutant of UpdatedCluster: the matched items are put in front
UpdatedClusterInFront(cluster, matched) ==
    LET items == ClusterItems(matched) \o cluster.items
    IN  [cluster EXCEPT !.items = items,
                        !.item_count = Len(items),
                        !.input_types = InputTypesOf(items)]

\* lines 164-176: the copy of the cluster with the matched items appended
UpdatedCluster(cluster, matched) ==
    LET items == cluster.items \o ClusterItems(matched)
    IN  [cluster EXCEPT !.items = items,
                        !.item_count = Len(items),
                        !.input_types = InputTypesOf(items)]

\* line 164 copies the dict and not its items list, so the appends of line 166
\* also show in the previous cluster; its item_count and input_types stay
AliasedPrevious(cluster, matched) ==
    [cluster EXCEPT !.items = cluster.items \o ClusterItems(matched)]

RECURSIVE MatchClusters(_, _, _, _, _, _, _, _)
\* the loop of lines 143-179 from cluster_idx on
MatchClusters(inputs, new_embeddings, previous_clusters, cluster_embeddings, threshold, cluster_idx, assigned, acc) ==
    IF cluster_idx > Len(previous_clusters)
    THEN [updated_clusters |-> acc.updated_clusters,
          previous_after |-> acc.previous_after,
          matched_by |-> acc.matched_by,
          assigned |-> assigned]
    ELSE LET cluster == previous_clusters[cluster_idx]
             \* lines 145-147, 155: without an embedding of its own the
             \* cluster takes nothing
             idxs == IF cluster_idx > Len(cluster_embeddings) THEN <<>>
                     ELSE MatchedIndices(new_embeddings,
                                         cluster_embeddings[cluster_idx],
                                         assigned, threshold)
             matched == ItemsAt(inputs, idxs)
         IN  MatchClusters(inputs, new_embeddings, previous_clusters,
                           cluster_embeddings, threshold, cluster_idx + 1,
                           [i \in 1..Len(inputs) |-> assigned[i] \/ i \in Range(idxs)],
                           [updated_clusters |->
                                Append(acc.updated_clusters,
                                       IF idxs # <<>>
                                       THEN UpdatedCluster(cluster, matched)
                                       ELSE cluster),
                            previous_after |->
                                Append(acc.previous_after,
                                       IF idxs # <<>>
                                       THEN AliasedPrevious(cluster, matched)
                                       ELSE cluster),
                            matched_by |-> Append(acc.matched_by, idxs)])

\* a mutant of NewBucketId: numbering restarts at the previous maximum
NewBucketIdFromMax(previous_clusters, k) ==
    MaxOf({previous_clusters[c].bucket_id : c \in 1..Len(previous_clusters)}, -1)
    + k - 1

\* lines 187-190: the bucket_id of the k-th (1-based) new cluster
NewBucketId(previous_clusters, k) ==
    MaxOf({previous_clusters[c].bucket_id : c \in 1..Len(previous_clusters)}, -1)
    + k

\* a mutant of Assemble: the new clusters are put first
AssembleNewFirst(updated_clusters, new_clusters) == new_clusters \o updated_clusters

\* updated_clusters.extend(new_clusters), line 191
Assemble(updated_clusters, new_clusters) == updated_clusters \o new_clusters

\* cluster_inputs_with_history(inputs, previous_clusters, threshold) as a
\* record: what it returns (result), what it leaves in the objects of
\* previous_clusters (previous_after), and what it saw on the way
ClusterInputsWithHistory(cached, model, inputs, previous_clusters, threshold) ==
    IF Len(inputs) = 0
    THEN [embed_calls |-> <<>>, new_embeddings |-> <<>>,
          cluster_embeddings |-> <<>>, matched_by |-> <<>>,
          unassigned |-> <<>>, groups |-> <<>>,
          result |-> previous_clusters, previous_after |-> previous_clusters,
          cache |-> cached, raised |-> FALSE]
    ELSE IF Len(previous_clusters) = 0
    THEN LET a == ClusterInputsAdvanced(cached, model, inputs, threshold)
         IN  [embed_calls |-> a.embed_calls, new_embeddings |-> a.embeddings,
              cluster_embeddings |-> <<>>, matched_by |-> <<>>,
              unassigned |-> [i \in 1..Len(inputs) |-> i], groups |-> a.groups,
              result |-> a.result, previous_after |-> previous_clusters,
              cache |-> a.cache, raised |-> a.raised]
    ELSE LET new_texts == TextsOf(inputs)
             new_got == GetEmbeddings(cached, model, new_texts)
             new_embeddings == new_got.embeddings
             existing_cluster_texts ==
                 [c \in 1..Len(previous_clusters) |-> ClusterText(previous_clusters[c])]
             existing_got == GetEmbeddings(new_got.cache, model, existing_cluster_texts)
             existing_cluster_embeddings == existing_got.embeddings
             m == MatchClusters(inputs, new_embeddings, previous_clusters,
                                existing_cluster_embeddings, threshold, 1,
                                [i \in 1..Len(inputs) |-> FALSE],
                                [updated_clusters |-> <<>>, previous_after |-> <<>>,
                                 matched_by |-> <<>>])
             unassigned == Ascending({i \in 1..Len(inputs) : ~m.assigned[i]})
             \* called when unassigned is not empty; on no items it embeds
             \* nothing and returns no cluster
             a == ClusterInputsAdvanced(existing_got.cache, model,
                                        ItemsAt(inputs, unassigned), threshold)
             new_clusters ==
                 [k \in 1..Len(a.result) |->
                     [a.result[k] EXCEPT
                         !.bucket_id = NewBucketId(previous_clusters, k)]]
         IN  [embed_calls |-> <<new_texts, existing_cluster_texts>> \o
                              (IF unassigned # <<>> THEN a.embed_calls ELSE <<>>),
              new_embeddings |-> new_embeddings,
              cluster_embeddings |-> existing_cluster_embeddings,
              matched_by |-> m.matched_by,
              unassigned |-> unassigned,
              groups |-> IF unassigned # <<>> THEN a.groups ELSE <<>>,
              \* a fault of the nested call leaves nothing returned
              result |-> IF a.raised THEN <<>>
                         ELSE IF unassigned # <<>>
                         THEN Assemble(m.updated_clusters, new_clusters)
                         ELSE m.updated_clusters,
              previous_after |-> m.previous_after,
              cache |-> a.cache,
              raised |-> a.raised]

(***************************************************************************)
(* The inputs the model draws.  The external embedding model is a function *)
(* from texts to vectors: BaseModel fixes it on the texts items carry (one *)
(* vector each, so batches of items show every constellation of Vecs), and *)
(* the representative text of a cluster of several items, which is no item *)
(* text, may get any vector.                                               *)
(***************************************************************************)
BaseModel == [t \in Texts |->
                 CASE t = "a" -> V1 [] t = "b" -> V2 [] t = "c" -> V3
                   [] OTHER -> V4]

\* the embedding models a call over these texts may meet
Models(texts) ==
    {[t \in texts |-> IF t \in DOMAIN BaseModel THEN BaseModel[t] ELSE free[t]] :
        free \in [texts \ DOMAIN BaseModel -> Vecs]}

\* the items a batch is drawn from
PoolItems ==
    {InputItem("text", "a", 1), InputItem("audio", "b", 1),
     InputItem("document", "c", 1), InputItem("audio", "", 2)}

\* the thresholds a caller passes: the defaults of cluster_inputs_with_history
\* (0.4) and cluster_inputs_advanced (0.6)
Thresholds == {40, 60}

NoCall ==
    [op |-> "none", inputs |-> <<>>, previous_clusters |-> <<>>,
     threshold |-> 0, embed_calls |-> <<>>, embeddings |-> <<>>,
     cluster_embeddings |-> <<>>, matched_by |-> <<>>, unassigned |-> <<>>,
     groups |-> <<>>, result |-> <<>>, previous_after |-> <<>>,
     raised |-> FALSE]

\* arguments drawn, the function not yet applied
Pending(inputs, previous_clusters, threshold) ==
    [NoCall EXCEPT !.op = "pending", !.inputs = inputs,
                   !.previous_clusters = previous_clusters,
                   !.threshold = threshold]

(***************************************************************************)
(* SpecCluster: cluster_inputs and cluster_inputs_advanced applied to a    *)
(* drawn batch.                                                            *)
(***************************************************************************)
InitCluster ==
    /\ sessions = <<>>
    /\ requests = 0
    /\ cache = <<>>
    /\ log = <<>>
    /\ \E inputs \in SeqsUpTo(PoolItems, MaxItems), threshold \in Thresholds :
          call = Pending(inputs, <<>>, threshold)

CallClusterInputs ==
    /\ call.op = "pending"
    /\ \E model \in Models(Range(TextsOf(call.inputs))) :
          LET c == ClusterInputs(cache, model, call.inputs)
          IN  /\ call' = [call EXCEPT
                    !.op = "cluster_inputs",
                    !.threshold = SIMILARITY_THRESHOLD,
                    !.embed_calls = c.embed_calls,
                    !.embeddings = c.embeddings,
                    !.groups = c.groups,
                    !.result = [g \in 1..Len(c.groups) |->
                                   ItemsAt(call.inputs, c.groups[g])],
                    !.raised = c.raised]
              /\ cache' = c.cache
              /\ log' = Append(log, [inputs |-> call.inputs,
                                     embeddings |-> c.embeddings,
                                     hit |-> c.hit,
                                     groups |-> c.groups,
                                     raised |-> c.raised])
    /\ UNCHANGED <<sessions, requests>>

CallClusterInputsAdvanced ==
    /\ call.op = "pending"
    /\ \E model \in Models(Range(TextsOf(call.inputs))) :
          LET a == ClusterInputsAdvanced(cache, model, call.inputs, call.threshold)
          IN  /\ call' = [call EXCEPT
                    !.op = "cluster_inputs_advanced",
                    !.embed_calls = a.embed_calls,
                    !.embeddings = a.embeddings,
                    !.groups = a.groups,
                    !.result = a.result,
                    !.raised = a.raised]
              /\ cache' = a.cache
    /\ UNCHANGED <<sessions, requests, log>>

NextCluster == CallClusterInputs \/ CallClusterInputsAdvanced

SpecCluster == InitCluster /\ [][NextCluster]_vars

(***************************************************************************)
(* SpecRepeat: a process calls cluster_inputs and cluster_inputs_advanced  *)
(* several times over, so that later calls meet the cache the earlier ones *)
(* filled.  The batches are chosen so that keys of the cache recur: the    *)
(* same batch twice, and different batches whose texts join to the same    *)
(* string.  A text that is no item text of Texts gets any vector of Vecs   *)
(* from the model, a different one per call if the model so chooses.       *)
(***************************************************************************)
MaxCalls == 3

TextBatch(texts) == [i \in 1..Len(texts) |-> InputItem("text", texts[i], i)]

RepeatBatches ==
    {TextBatch(<<"a", "b">>), TextBatch(<<"c", "a">>),
     TextBatch(<<"a|b", "c">>), TextBatch(<<"a", "b|c">>),
     TextBatch(<<"a", "b", "c">>)}

InitRepeat ==
    /\ sessions = <<>>
    /\ requests = 0
    /\ cache = <<>>
    /\ log = <<>>
    /\ call = NoCall

\* the next call is made: its batch is drawn
DrawRepeat ==
    /\ call.op # "pending"
    /\ Len(log) < MaxCalls
    /\ \E inputs \in RepeatBatches :
          call' = Pending(inputs, <<>>, SIMILARITY_THRESHOLD)
    /\ UNCHANGED <<sessions, requests, cache, log>>

NextRepeat == DrawRepeat \/ CallClusterInputs \/ CallClusterInputsAdvanced

SpecRepeat == InitRepeat /\ [][NextRepeat]_vars

(***************************************************************************)
(* SpecMerge: cluster_inputs_with_history applied to a drawn batch and a   *)
(* drawn list of previous clusters.  The previous clusters are well formed *)
(* (item_count and input_types agree with items); bucket_ids are free, so  *)
(* lists with gaps, out of order and with repeated ids occur.              *)
(***************************************************************************)
BucketIds == {0, 2}

\* what a previous cluster holds: nothing, one item, or two items (whose
\* representative text "a b" is the text of no item)
PrevItemLists ==
    LET A == ClusterItem(InputItem("text", "a", 0))
        B == ClusterItem(InputItem("audio", "b", 0))
    IN  {<<>>, <<A>>, <<B>>, <<A, B>>}

\* the previous clusters drawn: any of these item lists under the first id,
\* the one-item lists under the other as well
PrevClusters ==
    LET all == {[bucket_id |-> b, items |-> items, item_count |-> Len(items),
                 input_types |-> InputTypesOf(items)] :
                    b \in BucketIds, items \in PrevItemLists}
    IN  {c \in all : c.bucket_id = 0 \/ c.item_count = 1}

InitMerge ==
    /\ sessions = <<>>
    /\ requests = 0
    /\ cache = <<>>
    /\ log = <<>>
    /\ \E inputs \in SeqsUpTo(PoolItems, MaxNew),
          previous_clusters \in SeqsUpTo(PrevClusters, MaxPrev),
          threshold \in Thresholds :
          call = Pending(inputs, previous_clusters, threshold)

\* the texts a call of cluster_inputs_with_history has embedded
TextsOfMerge(inputs, previous_clusters) ==
    Range(TextsOf(inputs)) \cup
    {ClusterText(previous_clusters[c]) : c \in 1..Len(previous_clusters)}

\* call' after cluster_inputs_with_history has returned h
Returned(c, h) ==
    [c EXCEPT
        !.op = "cluster_inputs_with_history",
        !.embed_calls = h.embed_calls,
        !.embeddings = h.new_embeddings,
        !.cluster_embeddings = h.cluster_embeddings,
        !.matched_by = h.matched_by,
        !.unassigned = h.unassigned,
        !.groups = h.groups,
        !.result = h.result,
        !.previous_after = h.previous_after,
        !.raised = h.raised]

CallClusterInputsWithHistory ==
    /\ call.op = "pending"
    /\ \E model \in Models(TextsOfMerge(call.inputs, call.previous_clusters)) :
          LET h == ClusterInputsWithHistory(cache, model, call.inputs,
                                            call.previous_clusters, call.threshold)
          IN  /\ call' = Returned(call, h)
              /\ cache' = h.cache
    /\ UNCHANGED <<sessions, requests, log>>

NextMerge == CallClusterInputsWithHistory

SpecMerge == InitMerge /\ [][NextMerge]_vars

(***************************************************************************)
(* The history store (memory_store.py) and the request handler             *)
(* input_unified (api/input.py 20-167).                                    *)
(***************************************************************************)
SessionIds == {"s1"}
None == "None"

\* the record the defaultdict creates for an unseen session id (lines 9-17;
\* the two timestamps are left out)
EmptySession ==
    [inputs |-> <<>>, responses |-> <<>>, clusters |-> <<>>,
     topics |-> <<>>, user_preferences |-> <<>>]

\* self._sessions[session_id]: the record, created on first access
SessionOf(store, session_id) ==
    IF session_id \in DOMAIN store THEN store[session_id] ELSE EmptySession

\* the store with the record of session_id replaced (or created)
WithSession(store, session_id, record) ==
    [s \in DOMAIN store \cup {session_id} |->
        IF s = session_id THEN record ELSE store[s]]

\* get_clusters(session_id), lines 41-45: no record is created
GetClusters(store, session_id) ==
    IF session_id = None \/ session_id \notin DOMAIN store
    THEN <<>>
    ELSE store[session_id].clusters

\* a mutant of SaveClusters: the clusters are added to the ones saved before
SaveClustersMerging(store, session_id, clusters) ==
    IF session_id = None THEN store
    ELSE WithSession(store, session_id,
                     [SessionOf(store, session_id) EXCEPT !.clusters = @ \o clusters])

\* save_clusters(session_id, clusters), lines 47-51
SaveClusters(store, session_id, clusters) ==
    IF session_id = None THEN store
    ELSE WithSession(store, session_id,
                     [SessionOf(store, session_id) EXCEPT !.clusters = clusters])

\* a mutant of AddInput: the record is put in front
AddInputInFront(store, session_id, input_data) ==
    IF session_id = None THEN store
    ELSE WithSession(store, session_id,
             [SessionOf(store, session_id) EXCEPT
                 !.inputs = <<input_data>> \o @])

\* add_input(session_id, input_data), lines 19-28
AddInput(store, session_id, input_data) ==
    IF session_id = None THEN store
    ELSE WithSession(store, session_id,
             [SessionOf(store, session_id) EXCEPT
                 !.inputs = Append(@, input_data)])

\* add_response(session_id, response_data), lines 30-39
AddResponse(store, session_id, response_data) ==
    IF session_id = None THEN store
    ELSE WithSession(store, session_id,
             [SessionOf(store, session_id) EXCEPT
                 !.responses = Append(@, response_data)])

\* the all-empty structure of lines 56-62
EmptyHistory ==
    [previous_inputs |-> <<>>, previous_responses |-> <<>>,
     session_summary |-> None, topics_discussed |-> <<>>,
     user_preferences |-> <<>>]

\* seq[-limit:] as Python slices it: -0 is 0, so limit 0 is the whole list
LastN(seq, limit) ==
    IF limit = 0 \/ limit >= Len(seq) THEN seq
    ELSE SubSeq(seq, Len(seq) - limit + 1, Len(seq))

\* _generate_summary(session), lines 81-89
GenerateSummary(session) ==
    IF session.inputs = <<>> THEN None
    ELSE "Session with " \o ToString(Len(session.inputs)) \o " input(s) and "
             \o ToString(Len(session.responses)) \o " response(s)"

\* get_history(session_id, limit), lines 53-79: no record is created
GetHistory(store, session_id, limit) ==
    IF session_id = None \/ session_id \notin DOMAIN store
    THEN EmptyHistory
    ELSE LET session == store[session_id]
         IN  [previous_inputs |-> LastN(session.inputs, limit),
              previous_responses |-> LastN(session.responses, limit),
              session_summary |-> GenerateSummary(session),
              topics_discussed |-> session.topics,
              user_preferences |-> session.user_preferences]

\* add_topic(session_id, topic), lines 91-95: the test of line 94 reads
\* self._sessions[session_id] and so creates the record
AddTopic(store, session_id, topic) ==
    IF session_id = None \/ topic = "" THEN store
    ELSE WithSession(store, session_id,
             [SessionOf(store, session_id) EXCEPT
                 !.topics = IF topic \in Range(@) THEN @ ELSE Append(@, topic)])

\* a mutant of UpdatePreferences: the records share one preferences dict
UpdatePreferencesShared(store, session_id, preferences) ==
    IF session_id = None THEN store
    ELSE [s \in DOMAIN store \cup {session_id} |->
             [SessionOf(store, s) EXCEPT
                 !.user_preferences =
                     [k \in DOMAIN @ \cup DOMAIN preferences |->
                         IF k \in DOMAIN preferences THEN preferences[k] ELSE @[k]]]]

\* update_preferences(session_id, preferences), lines 97-100: dict.update
UpdatePreferences(store, session_id, preferences) ==
    IF session_id = None THEN store
    ELSE WithSession(store, session_id,
             [SessionOf(store, session_id) EXCEPT
                 !.user_preferences =
                     [k \in DOMAIN @ \cup DOMAIN preferences |->
                         IF k \in DOMAIN preferences THEN preferences[k] ELSE @[k]]])

\* a mutant of ClearSession: the record is emptied of inputs and responses
\* and stays in the store
ClearSessionKeepsRecord(store, session_id) ==
    IF session_id \notin DOMAIN store THEN store
    ELSE [store EXCEPT ![session_id].inputs = <<>>, ![session_id].responses = <<>>]

\* a mutant of ClearSession: the record is replaced by an empty one
ClearSessionResets(store, session_id) ==
    IF session_id \notin DOMAIN store THEN store
    ELSE [store EXCEPT ![session_id] = EmptySession]

\* clear_session(session_id), lines 102-105
ClearSession(store, session_id) ==
    [s \in DOMAIN store \ {session_id} |-> store[s]]

\* get_all_sessions(), lines 107-109: the keys, their order left out
GetAllSessions(store) == DOMAIN store

\* a mutant of Flagged: only the last cluster, the one the newest item went
\* to, is flagged
FlaggedNewestOnly(clusters) ==
    [k \in 1..Len(clusters) |->
        IF k < Len(clusters) THEN clusters[k]
        ELSE [f \in DOMAIN clusters[k] \cup {"confidence_score", "requires_clarification"} |->
                 CASE f = "confidence_score" -> 60
                   [] f = "requires_clarification" -> TRUE
                   [] OTHER -> clusters[k][f]]]

\* resolver.py 29-33: every cluster dict of the list is flagged in place
Flagged(clusters) ==
    [k \in 1..Len(clusters) |->
        [f \in DOMAIN clusters[k] \cup {"confidence_score", "requires_clarification"} |->
            CASE f = "confidence_score" -> 60
              [] f = "requires_clarification" -> TRUE
              [] OTHER -> clusters[k][f]]]

(***************************************************************************)
(* The elicitation resolver (resolver.py).  The reasoning service is       *)
(* external: its reply is an input.  A reply is described by what the      *)
(* decoders of the resolver find in it:                                    *)
(*   kind             "fault": call_llm raised; "json": one of the two     *)
(*                    JSON decoders of _parse_llm_response returned a      *)
(*                    dict; "text": both returned None                     *)
(*   decision         the dict's 'decision', "absent" if it has none       *)
(*   confidence_type  what the dict holds under reasoning.confidence: a    *)
(*                    number, nothing, something that is no number, or     *)
(*                    'reasoning' is itself no dict; in a text reply, the  *)
(*                    confidence the text states, which no decoder reads   *)
(*   confidence       the number, in hundredths                            *)
(*   questions_type   the dict's 'questions': a list, null, or absent      *)
(*   other_keys       the dict has keys besides these three                *)
(*   marker           the reply's text holds NEEDS_CLARIFICATION in some   *)
(*                    letter case                                          *)
(*   lines            the lines of the text, each by what                  *)
(*                    _parse_text_response makes of it: "header" holds     *)
(*                    'question', "long" is longer than 10 characters once *)
(*                    stripped, "short" is not, "blank" is empty           *)
(* A question is named by its position in the list or in the text.         *)
(***************************************************************************)
MaxQuestions == 3

Decisions == {"absent", "CLEAR", "NEEDS_CLARIFICATION"}
Confidences == {30, 79, 80, 100}
ConfidenceTypes == {"absent", "number", "not_a_number", "reasoning_not_a_dict"}
QuestionsTypes == {"absent", "list", "null"}
LineKinds == {"header", "long", "short", "blank"}

\* _parse_llm_response (208-230): the dict, or None
ParseLlmResponse(reply) ==
    [is_none |-> reply.kind # "json",
     decision |-> reply.decision,
     confidence_type |-> reply.confidence_type,
     confidence |-> reply.confidence,
     questions_type |-> reply.questions_type,
     questions |-> reply.questions,
     other_keys |-> reply.other_keys]

\* the truth value of the decoded result (line 147): None and {} are false
Truthy(result) ==
    /\ ~result.is_none
    /\ \/ result.decision # "absent"
       \/ result.confidence_type # "absent"
       \/ result.questions_type # "absent"
       \/ result.other_keys

\* the loop of lines 240-250 from line i on
RECURSIVE CollectQuestions(_, _, _, _)
CollectQuestions(lines, i, collecting, questions) ==
    IF i > Len(lines) \/ Len(questions) >= 2 THEN questions
    ELSE IF lines[i] = "header"
    THEN CollectQuestions(lines, i + 1, TRUE, questions)
    ELSE IF collecting /\ lines[i] = "long"
    THEN CollectQuestions(lines, i + 1, collecting, Append(questions, i))
    ELSE CollectQuestions(lines, i + 1, collecting, questions)

\* a mutant of ParseTextResponse: the questions are collected whether or not
\* the marker is found
ParseTextResponseAlwaysCollects(reply) ==
    [needs_clarification |-> reply.marker,
     questions |-> CollectQuestions(reply.lines, 1, FALSE, <<>>),
     raised |-> FALSE]

\* _parse_text_response (232-252)
ParseTextResponse(reply) ==
    [needs_clarification |-> reply.marker,
     questions |-> IF reply.marker
                   THEN CollectQuestions(reply.lines, 1, FALSE, <<>>)
                   ELSE <<>>,
     raised |-> FALSE]

\* lines 161-164: assume clear
Clear == [needs_clarification |-> FALSE, questions |-> <<>>, raised |-> FALSE]

\* questions[:2]
FirstTwo(questions) == SubSeq(questions, 1, IF Len(questions) < 2 THEN Len(questions) ELSE 2)

\* a mutant of CheckIfClarificationNeeded: a fault of the service is not caught
CheckIfClarificationNeededUnguarded(reply) ==
    IF reply.kind = "fault"
    THEN [needs_clarification |-> FALSE, questions |-> <<>>, raised |-> TRUE]
    ELSE IF ~Truthy(ParseLlmResponse(reply)) THEN ParseTextResponse(reply)
    ELSE IF reply.confidence_type \in {"reasoning_not_a_dict", "not_a_number"} THEN Clear
    ELSE IF reply.decision # "NEEDS_CLARIFICATION" THEN Clear
    ELSE IF (IF reply.confidence_type = "absent" THEN 50 ELSE reply.confidence) < 80 THEN Clear
    ELSE IF reply.questions_type = "null" THEN Clear
    ELSE [needs_clarification |-> TRUE, questions |-> FirstTwo(reply.questions),
          raised |-> FALSE]

\* a mutant of CheckIfClarificationNeeded: the questions are returned unsliced
CheckIfClarificationNeededUnsliced(reply) ==
    IF reply.kind = "fault" THEN Clear
    ELSE IF ~Truthy(ParseLlmResponse(reply)) THEN ParseTextResponse(reply)
    ELSE IF reply.confidence_type \in {"reasoning_not_a_dict", "not_a_number"} THEN Clear
    ELSE IF reply.decision # "NEEDS_CLARIFICATION" THEN Clear
    ELSE IF (IF reply.confidence_type = "absent" THEN 50 ELSE reply.confidence) < 80 THEN Clear
    ELSE IF reply.questions_type = "null" THEN Clear
    ELSE [needs_clarification |-> TRUE, questions |-> reply.questions,
          raised |-> FALSE]

\* _check_if_clarification_needed from line 141 on.  Inside the try: call_llm
\* raises (142); reasoning.get on something that is no dict raises (150);
\* comparing something that is no number with 0.8 raises, if the decision
\* made Python evaluate the comparison (153); slicing null raises (154).
\* Every one of these ends in the handler of lines 161-164.
CheckIfClarificationNeeded(reply) ==
    IF reply.kind = "fault" THEN Clear
    ELSE LET result == ParseLlmResponse(reply)
         IN  IF ~Truthy(result) THEN ParseTextResponse(reply)
             ELSE IF result.confidence_type = "reasoning_not_a_dict" THEN Clear
             ELSE LET needs_clarification == result.decision = "NEEDS_CLARIFICATION"
                      confidence == IF result.confidence_type = "absent" THEN 50
                                    ELSE result.confidence
                  IN  IF ~needs_clarification THEN Clear
                      ELSE IF result.confidence_type = "not_a_number" THEN Clear
                      ELSE IF confidence < 80 THEN Clear
                      ELSE IF result.questions_type = "null" THEN Clear
                      ELSE [needs_clarification |-> TRUE,
                            questions |-> FirstTwo(result.questions),
                            raised |-> FALSE]

\* analyze_and_resolve (9-41).  clusters.copy() copies the list, not the
\* dicts: the flags land in the caller's clusters too (clusters_after).
\* called: whether the reasoning service was asked.
AnalyzeAndResolve(input_items, clusters, reply) ==
    IF input_items = <<>>
    THEN [resolved_clusters |-> clusters, clusters_after |-> clusters,
          needs_clarification |-> FALSE, questions |-> <<>>,
          raised |-> FALSE, called |-> FALSE]
    ELSE LET chk == CheckIfClarificationNeeded(reply)
             resolved_clusters == IF chk.raised THEN <<>>
                                  ELSE IF chk.needs_clarification THEN Flagged(clusters)
                                  ELSE clusters
         IN  [resolved_clusters |-> resolved_clusters,
              clusters_after |-> IF chk.raised THEN clusters ELSE resolved_clusters,
              needs_clarification |-> chk.needs_clarification,
              questions |-> chk.questions,
              raised |-> chk.raised, called |-> TRUE]

(***************************************************************************)
(* SpecResolve: analyze_and_resolve applied to drawn items, clusters and a *)
(* drawn reply of the reasoning service.                                   *)
(***************************************************************************)
QuestionLists == {[i \in 1..n |-> i] : n \in 0..MaxQuestions}

FaultReply ==
    [kind |-> "fault", decision |-> "absent", confidence_type |-> "absent",
     confidence |-> 0, questions_type |-> "absent", questions |-> <<>>,
     other_keys |-> FALSE, marker |-> FALSE, lines |-> <<>>]

\* a reply that names the decision holds the marker in its text
JsonReplies ==
    {r \in {[FaultReply EXCEPT !.kind = "json", !.decision = d,
                               !.confidence_type = ct,
                               !.confidence = IF ct = "number" THEN c ELSE 0,
                               !.questions_type = qt,
                               !.questions = IF qt = "list" THEN q ELSE <<>>,
                               !.other_keys = o, !.marker = m] :
                 d \in Decisions, ct \in ConfidenceTypes, c \in Confidences,
                 qt \in QuestionsTypes, q \in QuestionLists,
                 o \in BOOLEAN, m \in BOOLEAN} :
        /\ r.decision = "NEEDS_CLARIFICATION" => r.marker
        /\ (r.marker /\ r.decision # "NEEDS_CLARIFICATION") =>
              ~Truthy(ParseLlmResponse(r))
        /\ r.other_keys => (r.decision = "absent" /\ r.questions_type = "absent")}

TextReplies ==
    {[FaultReply EXCEPT !.kind = "text", !.marker = m, !.lines = l,
                        !.confidence_type = ct,
                        !.confidence = IF ct = "number" THEN 30 ELSE 0] :
        m \in BOOLEAN, l \in SeqsUpTo(LineKinds, MaxQuestions + 1),
        ct \in {"absent", "number"}}

Replies == {FaultReply} \cup JsonReplies \cup TextReplies

ResolveItems == {<<>>, <<InputItem("text", "a", 1)>>}

\* the clusters handed in: none, one, two, and two of which the first
\* carries the flags of an earlier call
ResolveClusters ==
    LET c0 == ClusterDict(0, <<InputItem("text", "a", 1)>>)
        c1 == ClusterDict(1, <<InputItem("audio", "b", 1)>>)
    IN  {<<>>, <<c0>>, <<c0, c1>>, <<Flagged(<<c0>>)[1], c1>>}

InitResolve ==
    /\ sessions = <<>>
    /\ requests = 0
    /\ cache = <<>>
    /\ log = <<>>
    /\ \E input_items \in ResolveItems, clusters \in ResolveClusters,
          reply \in Replies :
          call = [op |-> "pending_resolve", input_items |-> input_items,
                  clusters |-> clusters, reply |-> reply,
                  resolved_clusters |-> <<>>, clusters_after |-> clusters,
                  needs_clarification |-> FALSE, questions |-> <<>>,
                  raised |-> FALSE, called |-> FALSE]

CallAnalyzeAndResolve ==
    /\ call.op = "pending_resolve"
    /\ LET r == AnalyzeAndResolve(call.input_items, call.clusters, call.reply)
       IN  call' = [call EXCEPT
                      !.op = "analyze_and_resolve",
                      !.resolved_clusters = r.resolved_clusters,
                      !.clusters_after = r.clusters_after,
                      !.needs_clarification = r.needs_clarification,
                      !.questions = r.questions,
                      !.raised = r.raised,
                      !.called = r.called]
    /\ UNCHANGED <<sessions, requests, cache, log>>

NextResolve == CallAnalyzeAndResolve

SpecResolve == InitResolve /\ [][NextResolve]_vars

(***************************************************************************)
(* SpecStore: the operations of the history store, called in any order on  *)
(* a store that starts empty.  call holds the last operation, its          *)
(* arguments and what it returned, and three records kept beside the       *)
(* store, by the callers' own account of what they did:                    *)
(*   known     the ids written to since they were last cleared             *)
(*   saved     for each id, the clusters last passed to save_clusters      *)
(*             since the id was last cleared, <<>> if none                 *)
(*   replaced  the ids for which a save has replaced an earlier save       *)
(***************************************************************************)
MaxEntries == 3

StoreIds == {"s1", "s2"}
InputData == {[text |-> "a"], [text |-> "b"]}
ResponseData == {[answer |-> "r"]}
SavedClusters ==
    {<<ClusterDict(0, <<InputItem("text", "a", 1)>>)>>,
     <<ClusterDict(0, <<InputItem("audio", "b", 1)>>)>>}
Topics == {"t", ""}
Preferences == {<<>>, [lang |-> "en"]}
Limits == {0, 1, 10}

\* what a record holds: its inputs, responses, clusters, topics and preferences
Held(record) ==
    Len(record.inputs) + Len(record.responses) + Len(record.clusters)
        + Len(record.topics) + Cardinality(DOMAIN record.user_preferences)

\* what the store holds over all sessions; the writes are drawn so that it
\* never holds more than MaxEntries
RECURSIVE Entries(_)
Entries(store) ==
    IF DOMAIN store = {} THEN 0
    ELSE LET s == CHOOSE s \in DOMAIN store : TRUE
         IN  Held(store[s]) + Entries([t \in DOMAIN store \ {s} |-> store[t]])

\* existed: whether the store held a record for the id when the call was made
StoreCall(op, session_id, arg, result, known, saved, replaced) ==
    [op |-> op, session_id |-> session_id, arg |-> arg, result |-> result,
     existed |-> session_id \in DOMAIN sessions,
     known |-> known, saved |-> saved, replaced |-> replaced]

\* known, after a write to session_id
Written(session_id) ==
    IF session_id = None THEN call.known ELSE call.known \cup {session_id}

InitStore ==
    /\ sessions = <<>>
    /\ requests = 0
    /\ cache = <<>>
    /\ log = <<>>
    /\ call = StoreCall("none", None, None, None, {},
                        [s \in StoreIds |-> <<>>], {})

CallAddInput ==
    /\ \E session_id \in StoreIds \cup {None}, input_data \in InputData :
          /\ Entries(AddInput(sessions, session_id, input_data)) <= MaxEntries
          /\ sessions' = AddInput(sessions, session_id, input_data)
          /\ call' = StoreCall("add_input", session_id, input_data, None,
                               Written(session_id), call.saved, call.replaced)
    /\ UNCHANGED <<requests, cache, log>>

CallAddResponse ==
    /\ \E session_id \in StoreIds \cup {None}, response_data \in ResponseData :
          /\ Entries(AddResponse(sessions, session_id, response_data)) <= MaxEntries
          /\ sessions' = AddResponse(sessions, session_id, response_data)
          /\ call' = StoreCall("add_response", session_id, response_data, None,
                               Written(session_id), call.saved, call.replaced)
    /\ UNCHANGED <<requests, cache, log>>

CallGetClusters ==
    /\ \E session_id \in StoreIds \cup {None} :
          call' = StoreCall("get_clusters", session_id, None,
                            GetClusters(sessions, session_id),
                            call.known, call.saved, call.replaced)
    /\ UNCHANGED <<sessions, requests, cache, log>>

CallSaveClusters ==
    /\ \E session_id \in StoreIds \cup {None}, clusters \in SavedClusters :
          /\ Entries(SaveClusters(sessions, session_id, clusters)) <= MaxEntries
          /\ sessions' = SaveClusters(sessions, session_id, clusters)
          /\ call' = StoreCall("save_clusters", session_id, clusters, None,
                        Written(session_id),
                        IF session_id = None THEN call.saved
                        ELSE [call.saved EXCEPT ![session_id] = clusters],
                        IF session_id # None /\ call.saved[session_id] # <<>>
                        THEN call.replaced \cup {session_id}
                        ELSE call.replaced)
    /\ UNCHANGED <<requests, cache, log>>

CallGetHistory ==
    /\ \E session_id \in StoreIds \cup {None}, limit \in Limits :
          call' = StoreCall("get_history", session_id, limit,
                            GetHistory(sessions, session_id, limit),
                            call.known, call.saved, call.replaced)
    /\ UNCHANGED <<sessions, requests, cache, log>>

CallAddTopic ==
    /\ \E session_id \in StoreIds \cup {None}, topic \in Topics :
          /\ Entries(AddTopic(sessions, session_id, topic)) <= MaxEntries
          /\ sessions' = AddTopic(sessions, session_id, topic)
          /\ call' = StoreCall("add_topic", session_id, topic, None,
                               IF topic = "" THEN call.known ELSE Written(session_id),
                               call.saved, call.replaced)
    /\ UNCHANGED <<requests, cache, log>>

CallUpdatePreferences ==
    /\ \E session_id \in StoreIds \cup {None}, preferences \in Preferences :
          /\ Entries(UpdatePreferences(sessions, session_id, preferences)) <= MaxEntries
          /\ sessions' = UpdatePreferences(sessions, session_id, preferences)
          /\ call' = StoreCall("update_preferences", session_id, preferences, None,
                               Written(session_id), call.saved, call.replaced)
    /\ UNCHANGED <<requests, cache, log>>

CallClearSession ==
    /\ \E session_id \in StoreIds \cup {None} :
          /\ sessions' = ClearSession(sessions, session_id)
          /\ call' = StoreCall("clear_session", session_id, None, None,
                        call.known \ {session_id},
                        IF session_id = None THEN call.saved
                        ELSE [call.saved EXCEPT ![session_id] = <<>>],
                        call.replaced \ {session_id})
    /\ UNCHANGED <<requests, cache, log>>

CallGetAllSessions ==
    /\ call' = StoreCall("get_all_sessions", None, None, GetAllSessions(sessions),
                         call.known, call.saved, call.replaced)
    /\ UNCHANGED <<sessions, requests, cache, log>>

NextStore ==
    \/ CallAddInput \/ CallAddResponse \/ CallGetClusters \/ CallSaveClusters
    \/ CallGetHistory \/ CallAddTopic \/ CallUpdatePreferences
    \/ CallClearSession \/ CallGetAllSessions

SpecStore == InitStore /\ [][NextStore]_vars

\* what a request may carry: text must be non-blank (validate_text_payload),
\* the transcript of an audio and the text of a document may be anything
Absent == "absent"
RequestTexts == {Absent, "a", "b"}
RequestAudios == {Absent, "c"}
RequestDocuments == {Absent, ""}

\* input_items, lines 70-74: text, audio, document, the absent ones left out
InputItems(text, audio, document, input_id) ==
    (IF text = Absent THEN <<>> ELSE <<InputItem("text", text, input_id)>>) \o
    (IF audio = Absent THEN <<>> ELSE <<InputItem("audio", audio, input_id)>>) \o
    (IF document = Absent THEN <<>> ELSE <<InputItem("document", document, input_id)>>)

\* the threshold cluster_inputs_with_history gets when none is passed
DEFAULT_HISTORY_THRESHOLD == 40

\* the store after line 83 has run on the list line 79 took from it: the
\* list is the stored one (memory_store.py 45), so what the merge leaves in
\* the objects of previous_clusters is what the store holds
MergedInPlace(store, session_id, previous_after) ==
    IF session_id = None \/ session_id \notin DOMAIN store THEN store
    ELSE [store EXCEPT ![session_id].clusters = previous_after]

\* what a request that got past line 83 hands back (lines 102-108 and
\* 161-167), with the session and the verdict it was given on
Response(session_id, needs_clarification, resolved_clusters) ==
    [session_id |-> session_id, needs_clarification |-> needs_clarification,
     clusters |-> resolved_clusters]

\* input_unified from line 86 on, h being what cluster_inputs_with_history
\* returned at line 83.  Line 87 stores the list; lines 29-33 of the resolver
\* then flag its dicts, which are the stored ones.
Handled(session_id, text, audio, document, needs_clarification, h) ==
    LET input_id == requests + 1
        resolved_clusters ==
            IF needs_clarification THEN Flagged(h.result) ELSE h.result
        saved == SaveClusters(sessions, session_id, resolved_clusters)
    IN  /\ cache' = h.cache
        /\ sessions' =
              \* a fault of line 83 ends the request before line 87
              IF h.raised THEN MergedInPlace(sessions, session_id, h.previous_after)
              ELSE IF needs_clarification
              THEN saved                                   \* lines 102-108
              ELSE AddResponse(                            \* lines 136-160
                     AddInput(saved, session_id,
                              [input_id |-> input_id, text |-> text,
                               has_audio |-> audio # Absent,
                               has_document |-> document # Absent]),
                     session_id,
                     [input_id |-> input_id,
                      clusters |-> Len(resolved_clusters)])
        /\ log' = IF h.raised THEN log
                  ELSE Append(log, Response(session_id, needs_clarification,
                                            resolved_clusters))

\* the same, the call of line 83 kept for inspection
Respond(session_id, text, audio, document, needs_clarification, input_items, previous_clusters, h) ==
    /\ call' = Returned(Pending(input_items, previous_clusters,
                                DEFAULT_HISTORY_THRESHOLD), h)
    /\ Handled(session_id, text, audio, document, needs_clarification, h)

\* input_unified on session_id (or None) with the given parts; the verdict of
\* the reasoning service (needs_clarification) is an input
Request(session_id, text, audio, document, needs_clarification) ==
    /\ requests < MaxRequests
    /\ ~(text = Absent /\ audio = Absent /\ document = Absent)     \* line 30
    /\ LET input_items == InputItems(text, audio, document, requests + 1)
           previous_clusters == GetClusters(sessions, session_id)   \* line 79
       IN  \E model \in Models(TextsOfMerge(input_items, previous_clusters)) :
             Respond(session_id, text, audio, document, needs_clarification,
                     input_items, previous_clusters,
                     ClusterInputsWithHistory(cache, model, input_items,
                                              previous_clusters,
                                              DEFAULT_HISTORY_THRESHOLD))
    /\ requests' = requests + 1

Init ==
    /\ sessions = <<>>
    /\ requests = 0
    /\ call = NoCall
    /\ cache = <<>>
    /\ log = <<>>

Next ==
    \E session_id \in SessionIds \cup {None},
       text \in RequestTexts, audio \in RequestAudios,
       document \in RequestDocuments, needs_clarification \in BOOLEAN :
        Request(session_id, text, audio, document, needs_clarification)

Spec == Init /\ [][Next]_vars

(***************************************************************************)
(* SpecBuckets: the request handler, together with calls of                *)
(* cluster_inputs_with_history on drawn arguments, so that bucket_ids are  *)
(* followed both through lists the store can hold and through lists with   *)
(* gaps, out of order or with repeated ids.                                *)
(***************************************************************************)
\* the previous clusters drawn for it: one without items under either id,
\* one with an item under the greater id
IdClusters ==
    {[bucket_id |-> b, items |-> <<>>, item_count |-> 0, input_types |-> {}] :
        b \in BucketIds} \cup
    {c \in PrevClusters : c.bucket_id = 2 /\ c.items[1].normalized_text = "a"}

\* the items drawn for it
IdItems == {i \in PoolItems : i.normalized_text # "b"}

InitBuckets ==
    \/ Init
    \* a direct call is followed on its own: no request is served after it
    \/ /\ sessions = <<>>
       /\ requests = MaxRequests
       /\ cache = <<>>
       /\ log = <<>>
       /\ \E inputs \in SeqsUpTo(IdItems, MaxNew),
             previous_clusters \in SeqsUpTo(IdClusters, MaxPrev) :
             call = Pending(inputs, previous_clusters, DEFAULT_HISTORY_THRESHOLD)

NextBuckets == Next \/ NextMerge

SpecBuckets == InitBuckets /\ [][NextBuckets]_vars

(***************************************************************************)
(* SpecAnnotate: the same, with direct calls of cluster_inputs_advanced.   *)
(***************************************************************************)
NextAnnotate == NextBuckets \/ CallClusterInputsAdvanced

SpecAnnotate == InitBuckets /\ [][NextAnnotate]_vars

(***************************************************************************)
(* Properties of cluster_inputs_with_history, checked under SpecMerge.     *)
(***************************************************************************)
IsMerge == call.op = "cluster_inputs_with_history"

PrevLen == Len(call.previous_clusters)

\* the items of all clusters of a list, in list order
AllItems(clusters) == Flatten([k \in 1..Len(clusters) |-> clusters[k].items])

\* the clusters of the result that follow the previous ones
NewClusters == SubSeq(call.result, PrevLen + 1, Len(call.result))

\* the previous clusters whose representative embedding input i is similar to
SimilarClusters(i) ==
    {c \in 1..PrevLen :
        CosGE(call.embeddings[i], call.cluster_embeddings[c], call.threshold)}

\* the first of them in list order
FirstSimilar(i) ==
    CHOOSE c \in SimilarClusters(i) : \A d \in SimilarClusters(i) : c <= d

\* the inputs whose first similar previous cluster is c, in input order
TakenBy(c) ==
    Ascending({i \in 1..Len(call.inputs) :
                  SimilarClusters(i) # {} /\ FirstSimilar(i) = c})

\* the inputs similar to no previous cluster, in input order
Unmatched == Ascending({i \in 1..Len(call.inputs) : SimilarClusters(i) = {}})

IsPrefix(s, t) == Len(s) <= Len(t) /\ SubSeq(t, 1, Len(s)) = s

\* C1: the items of the returned clusters are, as a multiset, the items of
\* the previous clusters plus the new items: none dropped, none twice.
MergeConservesItems ==
    IsMerge =>
        BagOfSeq(AllItems(call.result)) =
            BagOfSeq(AllItems(call.previous_clusters)) (+)
            BagOfSeq(ClusterItems(call.inputs))

\* C1 witness: a merge in which an input similar to two previous clusters is
\* taken by one, while another input goes to a new cluster
MergeConservesItemsWitness ==
    /\ IsMerge /\ PrevLen >= 2
    /\ AllItems(call.previous_clusters) # <<>>
    /\ \E i \in 1..Len(call.inputs) : Cardinality(SimilarClusters(i)) >= 2
    /\ NewClusters # <<>>

\* no two clusters of the list have the same bucket_id
DistinctBucketIds(clusters) ==
    \A c, d \in 1..Len(clusters) :
        c # d => clusters[c].bucket_id # clusters[d].bucket_id

\* C2: cluster_inputs_with_history returns pairwise distinct bucket_ids when
\* the previous clusters had pairwise distinct ones, and its k-th new cluster
\* has the greatest previous bucket_id plus k (k - 1 without previous
\* clusters); no session of the store holds two clusters with one bucket_id.
BucketIdsStayUnique ==
    /\ IsMerge =>
          /\ DistinctBucketIds(call.previous_clusters) =>
                DistinctBucketIds(call.result)
          /\ \A k \in 1..Len(NewClusters) :
                NewClusters[k].bucket_id =
                    MaxOf({call.previous_clusters[c].bucket_id : c \in 1..PrevLen},
                          -1) + k
    /\ \A s \in DOMAIN sessions : DistinctBucketIds(sessions[s].clusters)

\* C2 witness: the second request of a session was merged into the saved
\* clusters and made two new clusters, and the session holds them all
BucketIdsStayUniqueWitness ==
    /\ IsMerge /\ requests = 2
    /\ PrevLen > 0 /\ Len(NewClusters) >= 2
    /\ \E s \in DOMAIN sessions :
          /\ Len(sessions[s].clusters) = Len(call.result)
          /\ Len(sessions[s].clusters) >= 2

\* C3: with previous clusters given, each previous cluster comes back with
\* exactly the inputs appended, in input order and after its own items, of
\* which it is the first cluster (in list order) whose representative
\* embedding has similarity >= threshold with the input; the new clusters
\* hold exactly the inputs similar to no previous cluster.
MergeMatchesEarliest ==
    (IsMerge /\ PrevLen > 0 /\ Len(call.inputs) > 0) =>
        /\ Len(call.result) >= PrevLen
        /\ \A c \in 1..PrevLen :
              call.result[c].items =
                  call.previous_clusters[c].items \o
                  ClusterItems(ItemsAt(call.inputs, TakenBy(c)))
        /\ BagOfSeq(AllItems(NewClusters)) =
              BagOfSeq(ClusterItems(ItemsAt(call.inputs, Unmatched)))

\* C3 witness: one input is similar to two previous clusters, and one input
\* has a similarity exactly equal to the threshold with the cluster it joins
MergeMatchesEarliestWitness ==
    /\ IsMerge /\ PrevLen >= 2
    /\ \E i \in 1..Len(call.inputs) :
          /\ Cardinality(SimilarClusters(i)) >= 2
          /\ call.previous_clusters[FirstSimilar(i)].items # <<>>
    /\ \E i \in 1..Len(call.inputs) :
          /\ SimilarClusters(i) # {}
          /\ ~CosGT(call.embeddings[i], call.cluster_embeddings[FirstSimilar(i)],
                    call.threshold)

\* C4: the result is the previous clusters, in their order, each untouched
\* or extended at its end by new items, followed by clusters made of new
\* items only.
MergeKeepsPreviousFirst ==
    IsMerge =>
        /\ Len(call.result) >= PrevLen
        /\ \A c \in 1..PrevLen :
              LET p == call.previous_clusters[c]
                  r == call.result[c]
              IN  \/ r = p
                  \/ /\ r.bucket_id = p.bucket_id
                     /\ IsPrefix(p.items, r.items)
                     /\ Len(r.items) > Len(p.items)
                     /\ Range(SubSeq(r.items, Len(p.items) + 1, Len(r.items)))
                            \subseteq Range(ClusterItems(call.inputs))
        /\ \A k \in 1..Len(NewClusters) :
              /\ NewClusters[k].items # <<>>
              /\ Range(NewClusters[k].items) \subseteq Range(ClusterItems(call.inputs))

\* C4 witness: of two previous clusters one is extended and the other is
\* not, and a new cluster follows them
MergeKeepsPreviousFirstWitness ==
    /\ IsMerge /\ PrevLen = 2
    /\ \E c, d \in 1..PrevLen :
          /\ call.result[c] # call.previous_clusters[c]
          /\ call.result[d] = call.previous_clusters[d]
    /\ NewClusters # <<>>

\* C5 (as claimed): a previous cluster without items takes no input and
\* comes back unchanged.
EmptyClusterPassedThrough ==
    (IsMerge /\ Len(call.inputs) > 0) =>
        \A c \in 1..PrevLen :
            call.previous_clusters[c].items = <<>> =>
                call.result[c] = call.previous_clusters[c]

(***************************************************************************)
(* Properties of cluster_inputs and cluster_inputs_advanced, checked under *)
(* SpecCluster.  call.groups holds, for each returned group, the arrival   *)
(* indices of its items.                                                   *)
(***************************************************************************)
IsClusterInputs == call.op = "cluster_inputs"

NumInputs == Len(call.inputs)

\* the similarity of inputs i and j reaches the threshold of cluster_inputs
Similar(i, j) ==
    CosGE(call.embeddings[i], call.embeddings[j], SIMILARITY_THRESHOLD)

\* the arrival indices in group g
Members(g) == Range(call.groups[g])

\* the arrival indices in the groups before g
EarlierMembers(g) == UNION {Members(h) : h \in 1..(g - 1)}

\* the position of the group that holds arrival index i
GroupOf(i) == CHOOSE g \in 1..Len(call.groups) : i \in Members(g)

\* C6: the result is a partition of the batch: every arrival index is in
\* exactly one group, no group is empty, the groups are in the order of
\* their first items and the items of a group are in arrival order.
ClusterInputsPartitions ==
    IsClusterInputs =>
        /\ Len(call.result) = Len(call.groups)
        /\ \A g \in 1..Len(call.groups) :
              /\ call.groups[g] # <<>>
              /\ call.result[g] = ItemsAt(call.inputs, call.groups[g])
              /\ \A k \in 1..(Len(call.groups[g]) - 1) :
                    call.groups[g][k] < call.groups[g][k + 1]
              /\ \A h \in 1..(g - 1) : call.groups[h][1] < call.groups[g][1]
        /\ \A i \in 1..NumInputs :
              Cardinality({gk \in {<<g, k>> : g \in 1..Len(call.groups),
                                              k \in 1..MaxItems + 1} :
                              /\ gk[2] <= Len(call.groups[gk[1]])
                              /\ call.groups[gk[1]][gk[2]] = i}) = 1
        /\ \A g \in 1..Len(call.groups) : Members(g) \subseteq 1..NumInputs
        /\ BagOfSeq(Flatten(call.result)) = BagOfSeq(call.inputs)

\* C6 witness: three items in two groups, the first group holding the first
\* and the third item
ClusterInputsPartitionsWitness ==
    /\ IsClusterInputs /\ NumInputs = 3
    /\ call.groups = << <<1, 3>>, <<2>> >>

\* C7: each group is opened by the first index not yet grouped, and a later
\* index not yet grouped joins it exactly when it is similar to a member of
\* the group with a smaller index (the members present when it is scanned).
ClusterInputsGreedy ==
    (IsClusterInputs /\ NumInputs >= 2) =>
        \A g \in 1..Len(call.groups) :
            LET free == (1..NumInputs) \ EarlierMembers(g)
                i == call.groups[g][1]
            IN  /\ i \in free
                /\ \A j \in free : i <= j
                /\ \A j \in free :
                      j > i =>
                          (j \in Members(g) <=>
                              \E m \in Members(g) : m < j /\ Similar(m, j))

\* C7 witness: an item joins a group through a member that is not its opener
ClusterInputsGreedyWitness ==
    /\ IsClusterInputs /\ NumInputs >= 3
    /\ \E g \in 1..Len(call.groups) : \E j \in Members(g) :
          /\ j # call.groups[g][1]
          /\ ~Similar(call.groups[g][1], j)

\* C8 (as claimed): cluster_inputs_advanced links with the threshold it is
\* given: every item of a bucket but the first has a similarity >= that
\* threshold with an earlier item of the bucket.
AdvancedUsesGivenThreshold ==
    (call.op = "cluster_inputs_advanced" /\ NumInputs >= 2) =>
        \A g \in 1..Len(call.groups) :
            /\ call.result[g].items = ClusterItems(ItemsAt(call.inputs, call.groups[g]))
            /\ \A k \in 2..Len(call.groups[g]) :
                  \E m \in 1..(k - 1) :
                      CosGE(call.embeddings[call.groups[g][m]],
                            call.embeddings[call.groups[g][k]], call.threshold)

\* C9 (as claimed): two items whose similarity reaches the threshold are
\* never in different groups.
ClusterInputsTransitive ==
    (IsClusterInputs /\ NumInputs >= 2) =>
        \A i, j \in 1..NumInputs : Similar(i, j) => GroupOf(i) = GroupOf(j)

\* C9 (amended): an item similar to an item that arrived before it is in the
\* group of that item or in a group opened before that group.
ClusterInputsForwardLink ==
    (IsClusterInputs /\ NumInputs >= 2) =>
        \A k, j \in 1..NumInputs :
            (k < j /\ Similar(k, j)) => GroupOf(j) <= GroupOf(k)

\* C9 witness: two similar items in different groups, the later one in the
\* group opened first
ClusterInputsForwardLinkWitness ==
    /\ IsClusterInputs
    /\ \E k, j \in 1..NumInputs :
          k < j /\ Similar(k, j) /\ GroupOf(j) < GroupOf(k)

\* the partition a grouping stands for: the set of its groups, each the set
\* of its items
PartitionOf(inputs, groups) ==
    {{inputs[groups[g][k]] : k \in 1..Len(groups[g])} : g \in 1..Len(groups)}

\* the permutations of 1..n
Perms(n) == {p \in [1..n -> 1..n] : \A a, b \in 1..n : a # b => p[a] # p[b]}

\* the batch in the arrival order p
Reordered(inputs, p) == [k \in 1..Len(inputs) |-> inputs[p[k]]]

\* a batch of three items of which the third is similar to each of the two
\* others, which are not similar to each other
Chain ==
    <<InputItem("text", "a", 1), InputItem("audio", "", 2),
      InputItem("audio", "b", 1)>>

\* C10: the items of Chain, with the embeddings they have, are partitioned
\* differently by cluster_inputs in two arrival orders: whenever it has
\* clustered Chain, another arrival order of the same items gets another
\* partition.
ClusterInputsOrderDependent ==
    (IsClusterInputs /\ call.inputs = Chain) =>
        \E p \in Perms(NumInputs) :
            PartitionOf(call.inputs, call.groups) #
            PartitionOf(Reordered(call.inputs, p),
                        IndexClusters(Reordered(call.embeddings, p)))

\* C10 witness: a call whose partition differs from the one that another
\* arrival order of its batch, with the same embeddings, is given
ClusterInputsOrderDependentWitness ==
    /\ IsClusterInputs /\ call.inputs = Chain
    /\ \E p \in Perms(NumInputs) :
          PartitionOf(call.inputs, call.groups) #
          PartitionOf(Reordered(call.inputs, p),
                      IndexClusters(Reordered(call.embeddings, p)))

\* C11: on no item cluster_inputs returns the empty list and on one item one
\* group holding that item; it asks for no embedding, leaves the cache as it
\* was and raises nothing.
ClusterInputsDegenerate ==
    (IsClusterInputs /\ NumInputs <= 1) =>
        /\ call.result = IF NumInputs = 0 THEN <<>> ELSE << <<call.inputs[1]>> >>
        /\ call.embed_calls = <<>>
        /\ cache = <<>>
        /\ ~call.raised

\* C11 witness: cluster_inputs has returned on a batch of one item
ClusterInputsDegenerateWitness ==
    /\ IsClusterInputs /\ NumInputs = 1
    /\ call.result = << <<call.inputs[1]>> >>

(***************************************************************************)
(* Properties of the cluster dicts, checked under SpecAnnotate.  The       *)
(* previous clusters handed to cluster_inputs_with_history are themselves  *)
(* well formed: they are drawn so, or were returned by an earlier call.    *)
(***************************************************************************)
WellFormed(cluster) ==
    /\ cluster.item_count = Len(cluster.items)
    /\ cluster.input_types = InputTypesOf(cluster.items)

IsResolve == call.op = "analyze_and_resolve"

\* the reply names the decision NEEDS_CLARIFICATION, in a dict or in its text
SaysNeedsClarification(reply) ==
    reply.kind # "fault" /\ (reply.decision = "NEEDS_CLARIFICATION" \/ reply.marker)

\* ... and states a confidence of at least 0.8
SaysConfident(reply) == reply.confidence_type = "number" /\ reply.confidence >= 80

\* C14: analyze_and_resolve returns needs_clarification = true only when the
\* reply carries NEEDS_CLARIFICATION with a confidence >= 0.8; a reply whose
\* confidence is below 0.8 or absent gives false on every decoding path, the
\* free-text fallback included.
ClarificationOnlyWhenConfident ==
    (IsResolve /\ call.needs_clarification) =>
        (SaysNeedsClarification(call.reply) /\ SaysConfident(call.reply))

\* C14 on the structured path alone, where it holds
ClarificationOnlyWhenConfidentJson ==
    (IsResolve /\ call.needs_clarification /\ Truthy(ParseLlmResponse(call.reply))) =>
        (SaysNeedsClarification(call.reply) /\ SaysConfident(call.reply))

\* no decoder finds anything in the reply: no dict, or the empty one, and no
\* marker in the text
Undecodable(reply) ==
    reply.kind # "fault" /\ ~Truthy(ParseLlmResponse(reply)) /\ ~reply.marker

\* C15: when the call to the reasoning service fails, or none of the three
\* decoders finds anything in the reply, analyze_and_resolve returns normally
\* with needs_clarification = false, no questions and the clusters as they
\* were handed in.
ServiceFaultMeansClear ==
    (IsResolve /\ call.called
        /\ (call.reply.kind = "fault" \/ Undecodable(call.reply))) =>
        /\ ~call.raised
        /\ ~call.needs_clarification
        /\ call.questions = <<>>
        /\ call.resolved_clusters = call.clusters
        /\ call.clusters_after = call.clusters

\* C15 witness: the service failed while clusters were at stake
ServiceFaultMeansClearWitness ==
    /\ IsResolve /\ call.called /\ call.reply.kind = "fault"
    /\ Len(call.clusters) = 2 /\ call.resolved_clusters = call.clusters

HasFlags(cluster) ==
    /\ {"confidence_score", "requires_clarification"} \subseteq DOMAIN cluster
    /\ cluster.confidence_score = 60
    /\ cluster.requires_clarification = TRUE

\* C16: when analyze_and_resolve returns needs_clarification = true, every
\* cluster of the resolved set has confidence_score = 0.6 and
\* requires_clarification = true; when it returns false, every cluster is
\* returned as it was handed in, with neither field set by the call.
FlagsAreBlanket ==
    (IsResolve /\ ~call.raised) =>
        /\ Len(call.resolved_clusters) = Len(call.clusters)
        /\ call.needs_clarification =>
              \A k \in 1..Len(call.resolved_clusters) :
                  HasFlags(call.resolved_clusters[k])
        /\ ~call.needs_clarification =>
              /\ call.resolved_clusters = call.clusters
              /\ call.clusters_after = call.clusters

\* C16 witness: two clusters, none flagged before, both flagged by the call
FlagsAreBlanketWitness ==
    /\ IsResolve /\ call.needs_clarification
    /\ Len(call.clusters) = 2
    /\ \A k \in 1..2 : "confidence_score" \notin DOMAIN call.clusters[k]
    /\ \A k \in 1..2 : HasFlags(call.resolved_clusters[k])

\* C17: analyze_and_resolve never returns more than 2 questions, from a
\* structured reply or from the free-text fallback, however many the
\* reasoning service supplied.
AtMostTwoQuestions ==
    IsResolve => Len(call.questions) <= 2

\* the questions the reply supplies
Supplied(reply) ==
    IF Truthy(ParseLlmResponse(reply)) THEN Len(reply.questions)
    ELSE Cardinality({i \in 1..Len(reply.lines) : reply.lines[i] = "long"})

\* C17 witness: a structured reply supplied more than two questions and two
\* came back
AtMostTwoQuestionsWitness ==
    /\ IsResolve /\ call.needs_clarification
    /\ Truthy(ParseLlmResponse(call.reply))
    /\ Supplied(call.reply) > 2
    /\ Len(call.questions) = 2

\* the free-text fallback cut three question lines down to two
AtMostTwoQuestionsTextWitness ==
    /\ IsResolve /\ call.needs_clarification
    /\ call.reply.kind = "text"
    /\ Supplied(call.reply) > 2
    /\ call.questions = <<2, 3>>

(***************************************************************************)
(* Properties of the history store, checked under SpecStore.               *)
(***************************************************************************)
\* the id of the last call has no record by the callers' account: it was
\* never written to, or not since it was last cleared
Unseen == call.session_id \notin call.known

\* C18: get_clusters and get_history on a session id the store has never
\* seen, or has cleared, return the empty list and the all-empty structure.
ReadsOfUnseenAreEmpty ==
    /\ (call.op = "get_clusters" /\ Unseen) => call.result = <<>>
    /\ (call.op = "get_history" /\ Unseen) => call.result = EmptyHistory

\* C18 witness: get_history on an id without a record, while the other
\* session holds an input
ReadsOfUnseenAreEmptyWitness ==
    /\ call.op = "get_history" /\ call.session_id = "s1" /\ Unseen
    /\ call.result = EmptyHistory
    /\ "s2" \in DOMAIN sessions /\ sessions["s2"].inputs # <<>>

ReadOps == {"get_clusters", "get_history"}
WriteOps == {"add_input", "add_response", "save_clusters", "add_topic", "update_preferences"}

\* C19: after a read (get_clusters, get_history) or a write (add_input,
\* add_response, save_clusters, add_topic, update_preferences) of a session
\* id, a record for that id exists in the store and get_all_sessions lists
\* the id.
AccessCreatesRecord ==
    (call.op \in ReadOps \cup WriteOps /\ call.session_id # None
        /\ ~(call.op = "add_topic" /\ call.arg = "")) =>
        call.session_id \in GetAllSessions(sessions)

\* C19 for the writes alone, where it holds
WriteCreatesRecord ==
    (call.op \in WriteOps /\ call.session_id # None
        /\ ~(call.op = "add_topic" /\ call.arg = "")) =>
        call.session_id \in GetAllSessions(sessions)

\* C20: get_clusters(s) returns exactly the clusters passed to the last
\* save_clusters(s, .) since the last clear_session(s), and the empty list
\* when there was none.
GetClustersReturnsLastSave ==
    (call.op = "get_clusters" /\ call.session_id # None) =>
        call.result = call.saved[call.session_id]

\* C20 witness: a save has replaced an earlier save of the session, the other
\* session holds different clusters, and get_clusters returned the later save
GetClustersReturnsLastSaveWitness ==
    /\ call.op = "get_clusters" /\ call.session_id = "s1"
    /\ "s1" \in call.replaced
    /\ call.result # <<>> /\ call.result = call.saved["s1"]
    /\ call.saved["s2"] \notin {<<>>, call.result}

\* the store but for one field of one session
Elsewhere(store, session_id, field) ==
    [s \in DOMAIN store |->
        [f \in DOMAIN store[s] \ (IF s = session_id THEN {field} ELSE {}) |->
            store[s][f]]]

\* the step appends call'.arg to field of the session and leaves the rest of
\* the store as it was (a session without record counting as an empty one)
AppendsTo(field) ==
    LET session_id == call'.session_id
        before == WithSession(sessions, session_id, SessionOf(sessions, session_id))
    IN  /\ session_id \in DOMAIN sessions'
        /\ sessions'[session_id][field] = Append(before[session_id][field], call'.arg)
        /\ Elsewhere(sessions', session_id, field) = Elsewhere(before, session_id, field)

\* C21: add_input appends exactly one record at the end of the session's
\* inputs, add_response at the end of its responses; the earlier records,
\* their order, the other sequence, the saved clusters and the other sessions
\* stay as they were; with an absent session id the store is not changed.
AppendsOneRecord ==
    [][/\ (call'.op = "add_input" /\ call'.session_id # None) => AppendsTo("inputs")
       /\ (call'.op = "add_response" /\ call'.session_id # None) => AppendsTo("responses")
       /\ (call'.op \in {"add_input", "add_response"} /\ call'.session_id = None) =>
             sessions' = sessions]_vars

\* C21 witness: an input was appended behind a different one, in a session
\* that holds a response
AppendsOneRecordWitness ==
    /\ call.op = "add_input" /\ call.session_id = "s1"
    /\ "s1" \in DOMAIN sessions
    /\ Len(sessions["s1"].inputs) = 2
    /\ sessions["s1"].inputs[1] # sessions["s1"].inputs[2]
    /\ sessions["s1"].inputs[2] = call.arg
    /\ sessions["s1"].responses # <<>>

\* the last min(limit, n) records of a sequence of n, oldest first
Window(seq, limit) ==
    LET n == Len(seq)
        k == IF limit < n THEN limit ELSE n
    IN  [i \in 1..k |-> seq[n - k + i]]

\* C22: for a known session and every limit >= 0, get_history returns as
\* previous_inputs the last min(limit, n) of its n inputs, oldest first, and
\* likewise for the responses: never more than limit records, none for
\* limit 0.
HistoryWindow ==
    (call.op = "get_history" /\ call.session_id \in DOMAIN sessions) =>
        /\ call.result.previous_inputs =
              Window(sessions[call.session_id].inputs, call.arg)
        /\ call.result.previous_responses =
              Window(sessions[call.session_id].responses, call.arg)

\* C22 for limits above 0, where it holds
HistoryWindowPositive ==
    (call.op = "get_history" /\ call.session_id \in DOMAIN sessions /\ call.arg > 0) =>
        /\ call.result.previous_inputs =
              Window(sessions[call.session_id].inputs, call.arg)
        /\ call.result.previous_responses =
              Window(sessions[call.session_id].responses, call.arg)

\* the record a session without record has after one write
FirstWrite(op, arg) ==
    CASE op = "add_input" -> [EmptySession EXCEPT !.inputs = <<arg>>]
      [] op = "add_response" -> [EmptySession EXCEPT !.responses = <<arg>>]
      [] op = "save_clusters" -> [EmptySession EXCEPT !.clusters = arg]
      [] op = "add_topic" -> [EmptySession EXCEPT !.topics = <<arg>>]
      [] op = "update_preferences" -> [EmptySession EXCEPT !.user_preferences = arg]

\* C23: after clear_session(s) the record of s is gone, get_clusters(s)
\* returns the empty list and get_history(s) the all-empty structure, and the
\* other sessions are as before; a write to an id without record starts from
\* the empty record, so nothing stored before the clear is seen again;
\* clear_session on an id without record changes nothing.
ClearForgetsSession ==
    [][/\ call'.op = "clear_session" =>
             /\ call'.session_id \notin GetAllSessions(sessions')
             /\ GetClusters(sessions', call'.session_id) = <<>>
             /\ \A limit \in Limits :
                   GetHistory(sessions', call'.session_id, limit) = EmptyHistory
             /\ \A s \in DOMAIN sessions \ {call'.session_id} :
                   s \in DOMAIN sessions' /\ sessions'[s] = sessions[s]
             /\ call'.session_id \notin DOMAIN sessions => sessions' = sessions
       /\ (call'.op \in WriteOps /\ call'.session_id \in DOMAIN sessions'
             /\ call'.session_id \notin DOMAIN sessions) =>
             sessions'[call'.session_id] = FirstWrite(call'.op, call'.arg)]_vars

\* C23 witness: clear_session removed the record a session had, while the
\* other session holds an input
ClearForgetsSessionWitness ==
    /\ call.op = "clear_session" /\ call.session_id = "s1" /\ call.existed
    /\ "s1" \notin DOMAIN sessions
    /\ "s2" \in DOMAIN sessions /\ sessions["s2"].inputs # <<>>

(***************************************************************************)
(* The context constructor (context/constructor.py).  Its helpers are pure *)
(* functions of the clusters and envelopes they are given; each is applied *)
(* to drawn arguments by a specification of its own.                       *)
(***************************************************************************)

\* COMPLEXITY_THRESHOLDS
COMPLEX_CLUSTERS == 3
COMPLEX_ITEMS == 5
COMPLEX_TEXT_LENGTH == 5000
SIMPLE_TEXT_LENGTH == 500

RECURSIVE Repeat(_, _)
\* Python's text * n
Repeat(text, n) ==
    IF n = 0 THEN ""
    ELSE LET half == Repeat(text, n \div 2)
         IN  IF n % 2 = 0 THEN half \o half ELSE half \o half \o text

RECURSIVE TotalItems(_)
\* sum(env.item_count for env in cluster_envelopes)
TotalItems(cluster_envelopes) ==
    IF cluster_envelopes = <<>> THEN 0
    ELSE Head(cluster_envelopes).item_count + TotalItems(Tail(cluster_envelopes))

RECURSIVE TotalTextLength(_)
\* sum(len(env.normalized_text) for env in cluster_envelopes)
TotalTextLength(cluster_envelopes) ==
    IF cluster_envelopes = <<>> THEN 0
    ELSE Len(Head(cluster_envelopes).normalized_text)
             + TotalTextLength(Tail(cluster_envelopes))

\* the simple test taken at <= 500 characters
AssessComplexityInclusive(cluster_envelopes) ==
    LET num_clusters == Len(cluster_envelopes)
        total_items == TotalItems(cluster_envelopes)
        total_text_length == TotalTextLength(cluster_envelopes)
    IN  IF \/ num_clusters > COMPLEX_CLUSTERS
           \/ total_items > COMPLEX_ITEMS
           \/ total_text_length > COMPLEX_TEXT_LENGTH
        THEN "complex"
        ELSE IF /\ num_clusters = 1
                /\ total_items = 1
                /\ total_text_length <= SIMPLE_TEXT_LENGTH
             THEN "simple"
             ELSE "medium"

\* ContextConstructor._assess_complexity
AssessComplexity(cluster_envelopes) ==
    LET num_clusters == Len(cluster_envelopes)
        total_items == TotalItems(cluster_envelopes)
        total_text_length == TotalTextLength(cluster_envelopes)
    IN  IF \/ num_clusters > COMPLEX_CLUSTERS
           \/ total_items > COMPLEX_ITEMS
           \/ total_text_length > COMPLEX_TEXT_LENGTH
        THEN "complex"
        ELSE IF /\ num_clusters = 1
                /\ total_items = 1
                /\ total_text_length < SIMPLE_TEXT_LENGTH
             THEN "simple"
             ELSE "medium"

(***************************************************************************)
(* SpecComplexity: _assess_complexity applied to lists of envelopes whose  *)
(* item counts and text lengths sit on and around the four thresholds.     *)
(***************************************************************************)

MaxEnvelopes == 4

\* the two fields of a ClusterEnvelope that _assess_complexity reads
SizedEnvelope(item_count, length) ==
    [item_count |-> item_count, normalized_text |-> Repeat("x", length)]

SizedEnvelopes ==
    {SizedEnvelope(0, 0), SizedEnvelope(1, 499), SizedEnvelope(1, 500),
     SizedEnvelope(2, 2500), SizedEnvelope(3, 2500), SizedEnvelope(1, 5001)}

ComplexityCall(cluster_envelopes, result) ==
    [op |-> "assess_complexity", cluster_envelopes |-> cluster_envelopes,
     result |-> result]

InitComplexity ==
    /\ sessions = <<>> /\ requests = 0 /\ cache = <<>> /\ log = <<>>
    /\ \E cluster_envelopes \in SeqsUpTo(SizedEnvelopes, MaxEnvelopes) :
          call = ComplexityCall(cluster_envelopes, None)

CallAssessComplexity ==
    /\ call.op = "assess_complexity" /\ call.result = None
    /\ call' = ComplexityCall(call.cluster_envelopes,
                              AssessComplexity(call.cluster_envelopes))
    /\ UNCHANGED <<sessions, requests, cache, log>>

NextComplexity == CallAssessComplexity

SpecComplexity == InitComplexity /\ [][NextComplexity]_vars

\* C24: _assess_complexity returns complex exactly when there are more than 3
\* clusters or more than 5 items or more than 5000 characters; otherwise
\* simple exactly when there is 1 cluster with 1 item and fewer than 500
\* characters; otherwise medium.
ComplexityLevels ==
    (call.op = "assess_complexity" /\ call.result # None) =>
        LET c == Len(call.cluster_envelopes)
            i == TotalItems(call.cluster_envelopes)
            l == TotalTextLength(call.cluster_envelopes)
            complex == c > 3 \/ i > 5 \/ l > 5000
            simple == c = 1 /\ i = 1 /\ l < 500
        IN  /\ call.result \in {"complex", "simple", "medium"}
            /\ call.result = "complex" <=> complex
            /\ call.result = "simple" <=> (~complex /\ simple)
            /\ call.result = "medium" <=> (~complex /\ ~simple)

\* C24 witness: one cluster holding one item of exactly 500 characters was
\* assessed as medium
ComplexityLevelsWitness ==
    /\ call.op = "assess_complexity" /\ call.result = "medium"
    /\ Len(call.cluster_envelopes) = 1
    /\ call.cluster_envelopes[1].item_count = 1
    /\ Len(call.cluster_envelopes[1].normalized_text) = 500

(***************************************************************************)
(* Relationship analysis (constructor.py 180-242).  A cosine similarity is *)
(* kept exact as the pair (num, den2) = (u.v, |u|^2 |v|^2), its value being *)
(* num / sqrt(den2); the integers -1 and 2 that the scan starts from are   *)
(* (-1, 1) and (2, 1).                                                     *)
(***************************************************************************)

\* cosine_similarity(emb1, emb2), embeddings.py 33-34
CosineSimilarity(u, v) == [num |-> Dot(u, v), den2 |-> Dot(u, u) * Dot(v, v)]

\* x |x|
SignedSquare(x) == IF x >= 0 THEN x * x ELSE -(x * x)

\* a > b for two similarities; with a zero norm the value is NaN and every
\* comparison is false
SimGT(a, b) ==
    /\ a.den2 > 0 /\ b.den2 > 0
    /\ SignedSquare(a.num) * b.den2 > SignedSquare(b.num) * a.den2

\* a < b
SimLT(a, b) == SimGT(b, a)

\* f"{i}-{j}" for the 0-based indices i, j
PairKey(i, j) == ToString(i) \o "-" \o ToString(j)

RECURSIVE ScanPairs(_, _)
\* the pairs (i, j), i < j, of range(n) in the order of the two loops of
\* lines 225-226, from pair (i, j) on
ScanPairs(n, from) ==
    IF from[1] >= n - 1 THEN <<>>
    ELSE IF from[2] >= n THEN ScanPairs(n, <<from[1] + 1, from[1] + 2>>)
    ELSE <<from>> \o ScanPairs(n, <<from[1], from[2] + 1>>)

\* the scan taking a later pair of equal similarity as well (>= and <=)
ScanStepLatest(embeddings, pair, acc) ==
    LET sim == CosineSimilarity(embeddings[pair[1] + 1], embeddings[pair[2] + 1])
        pair_key == PairKey(pair[1], pair[2])
        larger == ~SimLT(sim, acc.max_sim)
        smaller == ~SimGT(sim, acc.min_sim)
    IN  [pairwise_similarities |->
             [k \in DOMAIN acc.pairwise_similarities \cup {pair_key} |->
                 IF k = pair_key THEN sim ELSE acc.pairwise_similarities[k]],
         max_sim |-> IF larger THEN sim ELSE acc.max_sim,
         max_pair |-> IF larger THEN pair_key ELSE acc.max_pair,
         min_sim |-> IF smaller THEN sim ELSE acc.min_sim,
         min_pair |-> IF smaller THEN pair_key ELSE acc.min_pair]

\* the body of the inner loop, lines 227-236, on the pair of 0-based indices
ScanStep(embeddings, pair, acc) ==
    LET sim == CosineSimilarity(embeddings[pair[1] + 1], embeddings[pair[2] + 1])
        pair_key == PairKey(pair[1], pair[2])
        larger == SimGT(sim, acc.max_sim)
        smaller == SimLT(sim, acc.min_sim)
    IN  [pairwise_similarities |->
             [k \in DOMAIN acc.pairwise_similarities \cup {pair_key} |->
                 IF k = pair_key THEN sim ELSE acc.pairwise_similarities[k]],
         max_sim |-> IF larger THEN sim ELSE acc.max_sim,
         max_pair |-> IF larger THEN pair_key ELSE acc.max_pair,
         min_sim |-> IF smaller THEN sim ELSE acc.min_sim,
         min_pair |-> IF smaller THEN pair_key ELSE acc.min_pair]

RECURSIVE Scan(_, _, _)
\* the two loops, lines 225-236, over the pairs still to visit
Scan(embeddings, pairs, acc) ==
    IF pairs = <<>> THEN acc
    ELSE Scan(embeddings, Tail(pairs), ScanStep(embeddings, Head(pairs), acc))

\* _calculate_pairwise_similarities(cluster_envelopes, embeddings); the
\* embeddings have at least one row per envelope
CalculatePairwiseSimilarities(cluster_envelopes, embeddings) ==
    LET acc == Scan(embeddings, ScanPairs(Len(cluster_envelopes), <<0, 1>>),
                    [pairwise_similarities |-> <<>>,
                     max_sim |-> [num |-> -1, den2 |-> 1],
                     min_sim |-> [num |-> 2, den2 |-> 1],
                     max_pair |-> None, min_pair |-> None])
    IN  [relationship_type |-> "multi_cluster",
         pairwise_similarities |-> acc.pairwise_similarities,
         most_similar_pair |-> acc.max_pair,
         least_similar_pair |-> acc.min_pair,
         max_similarity |-> acc.max_sim,
         min_similarity |-> acc.min_sim]

\* cluster_texts = [env.normalized_text for env in cluster_envelopes]
ClusterTexts(cluster_envelopes) ==
    [c \in 1..Len(cluster_envelopes) |-> cluster_envelopes[c].normalized_text]

\* what _analyze_cluster_relationships returns, given what get_embeddings
\* gave it
Relationships(cluster_envelopes, got) ==
    [relationships |->
         IF Len(got.embeddings) < Len(cluster_envelopes)
         THEN [relationship_type |-> None]
         ELSE CalculatePairwiseSimilarities(cluster_envelopes, got.embeddings),
     embed_calls |-> <<ClusterTexts(cluster_envelopes)>>,
     hit |-> got.hit, cache |-> got.cache,
     \* embeddings[j] of line 227 on too few rows: IndexError
     raised |-> Len(got.embeddings) < Len(cluster_envelopes)]

\* _analyze_cluster_relationships(cluster_envelopes, reasoning_trace) with the
\* cache as it finds it: what it returns, the batches it embeds and the cache
\* it leaves
AnalyzeClusterRelationships(cached, model, cluster_envelopes) ==
    IF Len(cluster_envelopes) < 2
    THEN [relationships |-> [relationship_type |-> "single_cluster"],
          embed_calls |-> <<>>, hit |-> FALSE, cache |-> cached,
          raised |-> FALSE]
    ELSE Relationships(cluster_envelopes,
                       GetEmbeddings(cached, model, ClusterTexts(cluster_envelopes)))

(***************************************************************************)
(* SpecRelations: relationship analysis of up to MaxEnvelopes envelopes    *)
(* over three texts, under every embedding model that gives each text one  *)
(* of five vectors, two of which point in opposite directions.             *)
(***************************************************************************)

RelationTexts == {"a", "b", "c"}

\* a vector opposite to V1
V1Opposite == <<0, 0, 0, -1>>

RelationVecs == Vecs \cup {V1Opposite}

\* the field of a ClusterEnvelope that relationship analysis reads
TextEnvelope(normalized_text) == [normalized_text |-> normalized_text]

RelationsCall(cluster_envelopes, model, done, returned) ==
    [op |-> "analyze_cluster_relationships",
     cluster_envelopes |-> cluster_envelopes, model |-> model, done |-> done,
     returned |-> returned]

InitRelations ==
    /\ sessions = <<>> /\ requests = 0 /\ cache = <<>> /\ log = <<>>
    /\ \E texts \in SeqsUpTo(RelationTexts, MaxEnvelopes),
          model \in [RelationTexts -> RelationVecs] :
          call = RelationsCall([c \in 1..Len(texts) |-> TextEnvelope(texts[c])],
                               model, FALSE, <<>>)

Analyzed(r) ==
    /\ call' = RelationsCall(call.cluster_envelopes, call.model, TRUE, r)
    /\ cache' = r.cache

CallAnalyzeClusterRelationships ==
    /\ call.op = "analyze_cluster_relationships" /\ ~call.done
    /\ Analyzed(AnalyzeClusterRelationships(cache, call.model, call.cluster_envelopes))
    /\ UNCHANGED <<sessions, requests, log>>

NextRelations == CallAnalyzeClusterRelationships

SpecRelations == InitRelations /\ [][NextRelations]_vars

\* the vectors of two envelopes of the call, by 0-based index
SimilarityOf(i, j) ==
    CosineSimilarity(call.model[call.cluster_envelopes[i + 1].normalized_text],
                     call.model[call.cluster_envelopes[j + 1].normalized_text])

\* the index pairs i < j of the call's envelopes
IndexPairs ==
    {p \in (0..Len(call.cluster_envelopes) - 1) \X (0..Len(call.cluster_envelopes) - 1) :
        p[1] < p[2]}

\* p comes before q in scan order
ScannedBefore(p, q) == p[1] < q[1] \/ (p[1] = q[1] /\ p[2] < q[2])

\* key names the first pair in scan order whose similarity no pair exceeds
IsFirstMaximum(key) ==
    \E p \in IndexPairs :
        /\ key = PairKey(p[1], p[2])
        /\ \A q \in IndexPairs :
              /\ ~SimGT(SimilarityOf(q[1], q[2]), SimilarityOf(p[1], p[2]))
              /\ ScannedBefore(q, p) =>
                    SimLT(SimilarityOf(q[1], q[2]), SimilarityOf(p[1], p[2]))

\* key names the first pair in scan order whose similarity no pair is below
IsFirstMinimum(key) ==
    \E p \in IndexPairs :
        /\ key = PairKey(p[1], p[2])
        /\ \A q \in IndexPairs :
              /\ ~SimLT(SimilarityOf(q[1], q[2]), SimilarityOf(p[1], p[2]))
              /\ ScannedBefore(q, p) =>
                    SimGT(SimilarityOf(q[1], q[2]), SimilarityOf(p[1], p[2]))

\* the similarity map holds exactly the pairs i-j, i < j, each with the
\* similarity of its two envelopes
MapIsComplete(r) ==
    /\ DOMAIN r.pairwise_similarities = {PairKey(p[1], p[2]) : p \in IndexPairs}
    /\ 2 * Cardinality(DOMAIN r.pairwise_similarities) =
          Len(call.cluster_envelopes) * (Len(call.cluster_envelopes) - 1)
    /\ \A p \in IndexPairs :
          r.pairwise_similarities[PairKey(p[1], p[2])] = SimilarityOf(p[1], p[2])

\* C25: relationship analysis returns the tag single_cluster for fewer than
\* 2 envelopes; for n >= 2 the similarity map holds exactly the n(n-1)/2
\* pairs i-j with i < j, most_similar_pair is the first pair in scan order
\* that attains the maximum similarity and least_similar_pair the first pair
\* in scan order that attains the minimum.
RelationshipPairs ==
    (call.op = "analyze_cluster_relationships" /\ call.done) =>
        IF Len(call.cluster_envelopes) < 2
        THEN call.returned.relationships = [relationship_type |-> "single_cluster"]
        ELSE /\ ~call.returned.raised
             /\ call.returned.relationships.relationship_type = "multi_cluster"
             /\ MapIsComplete(call.returned.relationships)
             /\ IsFirstMaximum(call.returned.relationships.most_similar_pair)
             /\ IsFirstMinimum(call.returned.relationships.least_similar_pair)

\* some pair of the call's envelopes has a similarity above -1
AboveFloor ==
    \E p \in IndexPairs :
        SimGT(SimilarityOf(p[1], p[2]), [num |-> -1, den2 |-> 1])

\* C25 where some similarity is above -1: the map is complete and the two
\* pairs are the first maximum and the first minimum; the map and the
\* minimum are right in every case
RelationshipPairsAboveFloor ==
    (call.op = "analyze_cluster_relationships" /\ call.done) =>
        IF Len(call.cluster_envelopes) < 2
        THEN call.returned.relationships = [relationship_type |-> "single_cluster"]
        ELSE /\ ~call.returned.raised
             /\ MapIsComplete(call.returned.relationships)
             /\ IsFirstMinimum(call.returned.relationships.least_similar_pair)
             /\ AboveFloor =>
                   IsFirstMaximum(call.returned.relationships.most_similar_pair)

\* three envelopes with a tie for the minimum were analysed and the earlier
\* pair of the tie is reported
RelationshipPairsAboveFloorWitness ==
    /\ call.op = "analyze_cluster_relationships" /\ call.done
    /\ Len(call.cluster_envelopes) = 3
    /\ SimilarityOf(0, 2) = SimilarityOf(1, 2)
    /\ SimGT(SimilarityOf(0, 1), SimilarityOf(0, 2))
    /\ call.returned.relationships.least_similar_pair = "0-2"
    /\ call.returned.relationships.most_similar_pair = "0-1"

\* two envelopes whose vectors point in opposite directions were analysed
\* and no most similar pair is reported
NoMostSimilarPair ==
    /\ call.op = "analyze_cluster_relationships" /\ call.done
    /\ Len(call.cluster_envelopes) = 2
    /\ call.returned.relationships.most_similar_pair = None

(***************************************************************************)
(* _extract_cluster_text (constructor.py 115-127).  A cluster and its      *)
(* items are Python dicts, here functions whose domain is the keys held.   *)
(***************************************************************************)

\* gw_output = cluster_item['original_data'].get('gateway_output', {})
GatewayOutput(cluster_item) ==
    IF "gateway_output" \in DOMAIN cluster_item.original_data
    THEN cluster_item.original_data.gateway_output
    ELSE <<>>

\* what one item appends to cluster_texts, lines 120-125
ItemTexts(cluster_item) ==
    IF "text_preview" \in DOMAIN cluster_item
    THEN <<cluster_item.text_preview>>
    ELSE IF "original_data" \in DOMAIN cluster_item
    THEN IF "raw_text" \in DOMAIN GatewayOutput(cluster_item)
         THEN <<GatewayOutput(cluster_item).raw_text>>
         ELSE <<>>
    ELSE <<>>

\* cluster.get('items', [])
ItemsOf(cluster) == IF "items" \in DOMAIN cluster THEN cluster.items ELSE <<>>

\* ContextEnvelopeConstructor._extract_cluster_text(cluster)
ExtractClusterText(cluster) ==
    LET cluster_texts ==
            Flatten([k \in 1..Len(ItemsOf(cluster)) |-> ItemTexts(ItemsOf(cluster)[k])])
    IN  IF cluster_texts # <<>> THEN Join("\n\n", cluster_texts) ELSE ""

(***************************************************************************)
(* SpecExtract: _extract_cluster_text applied to clusters of up to         *)
(* MaxItems items that hold every combination of the three text sources.   *)
(***************************************************************************)

\* original_data holding a gateway output with raw text
RawData == [gateway_output |-> [raw_text |-> "raw"]]

ExtractItems ==
    {[normalized_text |-> "full", text_preview |-> "prev"],
     [normalized_text |-> "full"],
     [normalized_text |-> "full", original_data |-> RawData],
     [text_preview |-> "prev", original_data |-> RawData],
     [original_data |-> RawData],
     [original_data |-> [gateway_output |-> [modality |-> "text"]]],
     [original_data |-> [source |-> "upload"]],
     [input_type |-> "text"],
     \* an item as cluster_inputs_advanced and cluster_inputs_with_history
     \* build it: the preview is the full text
     [input_type |-> "text", text_preview |-> "a", normalized_text |-> "a",
      original_data |-> RawData]}

ExtractClusters ==
    {[bucket_id |-> 0, items |-> items] : items \in SeqsUpTo(ExtractItems, MaxItems)}
    \cup {[bucket_id |-> 0]}

ExtractCall(cluster, result) ==
    [op |-> "extract_cluster_text", cluster |-> cluster, result |-> result]

InitExtract ==
    /\ sessions = <<>> /\ requests = 0 /\ cache = <<>> /\ log = <<>>
    /\ \E cluster \in ExtractClusters : call = ExtractCall(cluster, None)

CallExtractClusterText ==
    /\ call.op = "extract_cluster_text" /\ call.result = None
    /\ call' = ExtractCall(call.cluster, ExtractClusterText(call.cluster))
    /\ UNCHANGED <<sessions, requests, cache, log>>

NextExtract == CallExtractClusterText

SpecExtract == InitExtract /\ [][NextExtract]_vars

\* the text the item contributes when the full text is taken first, the raw
\* source text second and the preview last
FullTextFirst(cluster_item) ==
    IF "normalized_text" \in DOMAIN cluster_item
    THEN <<cluster_item.normalized_text>>
    ELSE IF "original_data" \in DOMAIN cluster_item
            /\ "gateway_output" \in DOMAIN cluster_item.original_data
            /\ "raw_text" \in DOMAIN cluster_item.original_data.gateway_output
    THEN <<cluster_item.original_data.gateway_output.raw_text>>
    ELSE IF "text_preview" \in DOMAIN cluster_item
    THEN <<cluster_item.text_preview>>
    ELSE <<>>

\* the items of the call's cluster
ExtractedItems == IF "items" \in DOMAIN call.cluster THEN call.cluster.items ELSE <<>>

\* C26: for each cluster item the constructor takes normalized_text when
\* present, else original_data.gateway_output.raw_text, else text_preview; an
\* item with none of them contributes nothing, and the chosen texts are
\* joined in item order with a blank line.
ExtractTakesFullTextFirst ==
    (call.op = "extract_cluster_text" /\ call.result # None) =>
        call.result =
            Join("\n\n", Flatten([k \in 1..Len(ExtractedItems) |->
                                     FullTextFirst(ExtractedItems[k])]))

\* every item of the call's cluster holds a preview equal to its full text
PreviewIsFullText ==
    \A k \in 1..Len(ExtractedItems) :
        /\ {"text_preview", "normalized_text"} \subseteq DOMAIN ExtractedItems[k]
        /\ ExtractedItems[k].text_preview = ExtractedItems[k].normalized_text

\* C26 on clusters whose items hold a preview equal to the full text, as the
\* clustering functions build them: the result is the full texts joined in
\* item order with a blank line
ExtractOnBuiltItems ==
    (call.op = "extract_cluster_text" /\ call.result # None /\ PreviewIsFullText) =>
        call.result =
            Join("\n\n", [k \in 1..Len(ExtractedItems) |->
                             ExtractedItems[k].normalized_text])

\* the text of a cluster of two built items was extracted
ExtractOnBuiltItemsWitness ==
    /\ call.op = "extract_cluster_text" /\ call.result = "a\n\na"
    /\ Len(ExtractedItems) = 2 /\ PreviewIsFullText

(***************************************************************************)
(* _build_cluster_envelopes (constructor.py 82-113).  Confidence scores    *)
(* are in hundredths, as in Flagged.                                       *)
(***************************************************************************)

SEMANTIC_SUMMARY_MAX_LENGTH == 200
SEMANTIC_SUMMARY_PREVIEW_LENGTH == 100

\* _generate_semantic_summary(text)
GenerateSemanticSummary(text) ==
    IF Len(text) > SEMANTIC_SUMMARY_MAX_LENGTH
    THEN SubSeq(text, 1, SEMANTIC_SUMMARY_PREVIEW_LENGTH) \o "..."
    ELSE text

\* the ClusterEnvelope built for one cluster, lines 93-111
ClusterEnvelope(cluster) ==
    [bucket_id |-> cluster.bucket_id,
     items |-> cluster.items,
     normalized_text |-> ExtractClusterText(cluster),
     input_types |-> cluster.input_types,
     item_count |-> cluster.item_count,
     semantic_summary |-> GenerateSemanticSummary(ExtractClusterText(cluster)),
     confidence_score |-> 100,
     requires_clarification |-> FALSE,
     clarification_questions |-> <<>>]

\* _build_cluster_envelopes(input_items, clusters, reasoning_trace)
BuildClusterEnvelopes(clusters) ==
    [k \in 1..Len(clusters) |-> ClusterEnvelope(clusters[k])]

(***************************************************************************)
(* SpecEnvelopes: _build_cluster_envelopes applied to lists of up to       *)
(* MaxPrev clusters as the clustering functions build them, each as built  *)
(* or as the resolver flagged it.                                          *)
(***************************************************************************)

\* an item whose text is longer than the summary limit
LongItem == InputItem("document", Repeat("x", SEMANTIC_SUMMARY_MAX_LENGTH + 1), 1)

BuiltClusters ==
    {ClusterDict(0, <<InputItem("text", "a", 1)>>),
     ClusterDict(1, <<InputItem("audio", "b", 1), InputItem("document", "c", 1)>>),
     ClusterDict(2, <<InputItem("audio", "", 2)>>),
     ClusterDict(3, <<LongItem>>)}

EnvelopeClusters == BuiltClusters \cup {Flagged(<<c>>)[1] : c \in BuiltClusters}

EnvelopesCall(clusters, done, cluster_envelopes) ==
    [op |-> "build_cluster_envelopes", clusters |-> clusters, done |-> done,
     cluster_envelopes |-> cluster_envelopes]

InitEnvelopes ==
    /\ sessions = <<>> /\ requests = 0 /\ cache = <<>> /\ log = <<>>
    /\ \E clusters \in SeqsUpTo(EnvelopeClusters, MaxPrev) :
          call = EnvelopesCall(clusters, FALSE, <<>>)

CallBuildClusterEnvelopes ==
    /\ call.op = "build_cluster_envelopes" /\ ~call.done
    /\ call' = EnvelopesCall(call.clusters, TRUE, BuildClusterEnvelopes(call.clusters))
    /\ UNCHANGED <<sessions, requests, cache, log>>

NextEnvelopes == CallBuildClusterEnvelopes

SpecEnvelopes == InitEnvelopes /\ [][NextEnvelopes]_vars

\* the resolver flagged ambiguity on the cluster
IsFlagged(cluster) ==
    /\ "requires_clarification" \in DOMAIN cluster
    /\ cluster.requires_clarification

\* C27: an envelope carries confidence_score 1.0 and requires_clarification
\* false when its cluster is not flagged, and confidence_score 0.6 with
\* requires_clarification true when ambiguity has been flagged on its
\* cluster, so the envelope never contradicts the flags of its cluster.
EnvelopeFollowsFlags ==
    (call.op = "build_cluster_envelopes" /\ call.done) =>
        /\ Len(call.cluster_envelopes) = Len(call.clusters)
        /\ \A k \in 1..Len(call.clusters) :
              IF IsFlagged(call.clusters[k])
              THEN /\ call.cluster_envelopes[k].confidence_score = 60
                   /\ call.cluster_envelopes[k].requires_clarification
                   /\ call.cluster_envelopes[k].confidence_score =
                         call.clusters[k].confidence_score
              ELSE /\ call.cluster_envelopes[k].confidence_score = 100
                   /\ ~call.cluster_envelopes[k].requires_clarification

\* C27 as the code has it: every envelope carries confidence_score 1.0,
\* requires_clarification false and no questions, whatever its cluster
\* carries; the other fields are the cluster's
EnvelopeDefaults ==
    (call.op = "build_cluster_envelopes" /\ call.done) =>
        /\ Len(call.cluster_envelopes) = Len(call.clusters)
        /\ \A k \in 1..Len(call.clusters) :
              /\ call.cluster_envelopes[k].confidence_score = 100
              /\ ~call.cluster_envelopes[k].requires_clarification
              /\ call.cluster_envelopes[k].clarification_questions = <<>>
              /\ call.cluster_envelopes[k].bucket_id = call.clusters[k].bucket_id
              /\ call.cluster_envelopes[k].items = call.clusters[k].items
              /\ call.cluster_envelopes[k].item_count = call.clusters[k].item_count

\* an envelope was built for a flagged cluster
EnvelopeDefaultsWitness ==
    /\ call.op = "build_cluster_envelopes" /\ call.done
    /\ Len(call.clusters) = 2
    /\ IsFlagged(call.clusters[1]) /\ ~IsFlagged(call.clusters[2])
    /\ Len(call.cluster_envelopes[2].semantic_summary) = 103

(***************************************************************************)
(* SpecEmbed: get_embeddings (embeddings.py 18-31) called up to MaxCalls   *)
(* times, one call after the other, on batches that are reorderings,       *)
(* one-text changes and re-splittings of one another.  The cache lives as  *)
(* long as the process; log holds the completed calls in order.            *)
(***************************************************************************)

EmbedTexts == {"", "a", "b", "c", "a|b", "b|c"}

\* the external model: one vector per text, the same at every call
EmbedModel ==
    [t \in EmbedTexts |->
        CASE t = "a" -> V1 [] t = "b" -> V2 [] t = "c" -> V3
          [] t = "a|b" -> V4 [] t = "b|c" -> V1 [] OTHER -> V4]

\* batches no two of which join to the same string
PlainBatches == {<<"a", "b">>, <<"b", "a">>, <<"a", "c">>, <<"">>}

EmbedBatches ==
    PlainBatches \cup {<<"a|b", "c">>, <<"a", "b|c">>, <<"a", "b", "c">>, <<>>}

EmbedCall(texts, got) ==
    [op |-> "get_embeddings", texts |-> texts, embeddings |-> got.embeddings,
     hit |-> got.hit]

InitEmbed ==
    /\ sessions = <<>> /\ requests = 0 /\ cache = <<>> /\ log = <<>>
    /\ call = [op |-> "none"]

Embedded(texts, got) ==
    /\ call' = EmbedCall(texts, got)
    /\ cache' = got.cache
    /\ log' = Append(log, EmbedCall(texts, got))

CallGetEmbeddings ==
    /\ Len(log) < MaxCalls
    /\ \E texts \in EmbedBatches :
          Embedded(texts, GetEmbeddings(cache, EmbedModel, texts))
    /\ UNCHANGED <<sessions, requests>>

NextEmbed == CallGetEmbeddings

SpecEmbed == InitEmbed /\ [][NextEmbed]_vars

\* the batches of the calls before the n-th
BatchesBefore(n) == {log[m].texts : m \in 1..(n - 1)}

\* the n-th call is served as the cache contract has it: from the cache
\* exactly when the same batch was computed before, and with one vector per
\* text, the text's own, in input order
ServedExactly(n) ==
    /\ log[n].hit <=> log[n].texts \in BatchesBefore(n)
    /\ Len(log[n].embeddings) = Len(log[n].texts)
    /\ \A i \in 1..Len(log[n].texts) :
          log[n].embeddings[i] = EmbedModel[log[n].texts[i]]

\* C28: get_embeddings serves a result from the cache only for a batch
\* identical, text for text and in the same order, to a batch computed
\* earlier; every other batch is a miss, so every call returns exactly one
\* vector per input text in input order.
CacheServesIdenticalBatchOnly == \A n \in 1..Len(log) : ServedExactly(n)

\* C28 for calls whose batches, like all batches before them, are non-empty
\* and hold no text with the separator character: the join of line 20 tells
\* such batches apart
CacheExactOnPlainBatches ==
    \A n \in 1..Len(log) :
        (\A m \in 1..n : log[m].texts \in PlainBatches) => ServedExactly(n)

\* a batch was computed, its reordering was computed as a miss, and the
\* batch itself was then served from the cache
CacheExactOnPlainBatchesWitness ==
    /\ Len(log) = 3
    /\ log[1].texts = <<"a", "b">> /\ log[2].texts = <<"b", "a">>
    /\ log[3].texts = <<"a", "b">>
    /\ ~log[1].hit /\ ~log[2].hit /\ log[3].hit
    /\ log[3].embeddings = <<V1, V2>>

\* a batch of three texts was served the two vectors computed for another
\* split of the same characters
ServedAnotherBatch ==
    /\ Len(log) = 2
    /\ log[1].texts = <<"a|b", "c">> /\ log[2].texts = <<"a", "b", "c">>
    /\ log[2].hit /\ Len(log[2].embeddings) = 2

(***************************************************************************)
(* SpecLoad: concurrent calls of get_embeddings on one event loop          *)
(* (embeddings.py 7-31).  A coroutine runs without interruption from one   *)
(* await to the next, so a call is two steps: from its entry to the await  *)
(* of run_in_executor (lines 20-26), and from the executor's answer to the *)
(* return (lines 26-31).  call holds the module globals and the tasks:     *)
(*   model   _model: 0 for None, else the number of the load that made it  *)
(*   loads   how many times SentenceTransformer(...) has returned a model  *)
(*   tasks   per task its position (pc), its batch, the model object it    *)
(*           took, what it returned and the fault it ended with            *)
(* cache is _embedding_cache.  Loading the model and encoding are external *)
(* and may fail.                                                           *)
(***************************************************************************)

MaxTasks == 3

Tasks == 1..MaxTasks

LoadBatches == {<<"a", "b">>, <<"a", "c">>}

Outcomes == {"ok", "fault"}

ArrivedTask ==
    [pc |-> "arrived", texts |-> <<>>, model |-> 0, embeddings |-> <<>>,
     hit |-> FALSE, error |-> None]

LoadCall(model, loads, tasks) ==
    [op |-> "get_embeddings_tasks", model |-> model, loads |-> loads,
     tasks |-> tasks]

InitLoad ==
    /\ sessions = <<>> /\ requests = 0 /\ cache = <<>> /\ log = <<>>
    /\ call = LoadCall(0, 0, [t \in Tasks |-> ArrivedTask])

\* get_embedding_model loading on every call
GetEmbeddingModelAlwaysLoads(model, loads, outcome) ==
    IF outcome = "ok"
    THEN [model |-> loads + 1, loads |-> loads + 1, raised |-> FALSE]
    ELSE [model |-> model, loads |-> loads, raised |-> TRUE]

\* get_embedding_model(), lines 10-16: the global it leaves, the count of
\* loads, and whether the constructor of line 14 raised
GetEmbeddingModel(model, loads, outcome) ==
    IF model = 0
    THEN IF outcome = "ok"
         THEN [model |-> loads + 1, loads |-> loads + 1, raised |-> FALSE]
         ELSE [model |-> model, loads |-> loads, raised |-> TRUE]
    ELSE [model |-> model, loads |-> loads, raised |-> FALSE]

\* the task after lines 20-26, given what get_embedding_model gave
Started(t, texts, m) ==
    call' = LoadCall(m.model, m.loads,
                     [call.tasks EXCEPT ![t] =
                         IF CacheKey(texts) \in DOMAIN cache
                         THEN [ArrivedTask EXCEPT !.pc = "returned", !.texts = texts,
                                                  !.embeddings = cache[CacheKey(texts)],
                                                  !.hit = TRUE]
                         ELSE IF m.raised
                         THEN [ArrivedTask EXCEPT !.pc = "raised", !.texts = texts,
                                                  !.error = "load fault"]
                         ELSE [ArrivedTask EXCEPT !.pc = "encoding", !.texts = texts,
                                                  !.model = m.model]])

\* lines 20-26: the key, the cache lookup, get_embedding_model() and the
\* hand-over of model.encode to the executor, where the coroutine suspends
StartGetEmbeddings(t) ==
    /\ call.tasks[t].pc = "arrived"
    /\ \E texts \in LoadBatches, outcome \in Outcomes :
          Started(t, texts,
                  IF CacheKey(texts) \in DOMAIN cache
                  THEN [model |-> call.model, loads |-> call.loads, raised |-> FALSE]
                  ELSE GetEmbeddingModel(call.model, call.loads, outcome))
    /\ UNCHANGED <<sessions, requests, cache, log>>

\* lines 26-31: the executor answers; on a result the cache entry is written
\* and the result returned, on a fault of model.encode the await raises it
ResumeGetEmbeddings(t) ==
    /\ call.tasks[t].pc = "encoding"
    /\ \E outcome \in Outcomes :
          IF outcome = "ok"
          THEN /\ call' = [call EXCEPT !.tasks[t].pc = "returned",
                                       !.tasks[t].embeddings =
                                           Encode(EmbedModel, call.tasks[t].texts)]
               /\ cache' = [k \in DOMAIN cache \cup {CacheKey(call.tasks[t].texts)} |->
                               IF k = CacheKey(call.tasks[t].texts)
                               THEN Encode(EmbedModel, call.tasks[t].texts)
                               ELSE cache[k]]
          ELSE /\ call' = [call EXCEPT !.tasks[t].pc = "raised",
                                       !.tasks[t].error = "encode fault"]
               /\ cache' = cache
    /\ UNCHANGED <<sessions, requests, log>>

NextLoad == \E t \in Tasks : StartGetEmbeddings(t) \/ ResumeGetEmbeddings(t)

SpecLoad == InitLoad /\ [][NextLoad]_vars

\* C29: across any interleaving of concurrent get_embeddings calls that all
\* arrive before the model exists, the embedding model is loaded at most
\* once, and every call that needs the model uses that one loaded model.
ModelLoadedAtMostOnce ==
    call.op = "get_embeddings_tasks" =>
        /\ call.loads <= 1
        /\ call.model = call.loads
        /\ \A t \in Tasks :
              (call.tasks[t].pc = "encoding"
                 \/ (call.tasks[t].pc = "returned" /\ ~call.tasks[t].hit)
                 \/ call.tasks[t].error = "encode fault") =>
                 (call.tasks[t].model = 1 /\ call.model = 1)

\* C29 witness: three calls arrived before the model existed, two of them
\* are suspended in the executor at the same time and the third has
\* returned, all three with the one loaded model
ModelLoadedAtMostOnceWitness ==
    /\ call.op = "get_embeddings_tasks" /\ call.loads = 1
    /\ call.tasks[1].pc = "encoding" /\ call.tasks[2].pc = "encoding"
    /\ call.tasks[3].pc = "returned" /\ ~call.tasks[3].hit
    /\ call.tasks[1].model = 1 /\ call.tasks[2].model = 1 /\ call.tasks[3].model = 1

(***************************************************************************)
(* Faults of the embedding provider.  model.encode (embeddings.py 26-29)   *)
(* may raise; get_embeddings, cluster_inputs, cluster_inputs_advanced,     *)
(* cluster_inputs_with_history, _analyze_cluster_relationships and         *)
(* construct_envelope hold no try statement, so the await of get_embeddings *)
(* raises in each of them and they end there.  A provider is its model and *)
(* the number (fails) of the encode call, counted within one call of a     *)
(* function below, that raises; 0 for none.  A batch found in the cache    *)
(* does not reach the provider.                                            *)
(***************************************************************************)

\* line 21: the batch is not in the cache
Misses(cached, texts) == CacheKey(texts) \notin DOMAIN cached

\* the fault answered with zero vectors that are cached and used
FaultedWithSubstitutes(cached, texts) ==
    [error |-> None, returned |-> TRUE, failed |-> texts,
     result |-> [i \in 1..Len(texts) |-> <<0, 0, 0, 0>>],
     cache |-> [k \in DOMAIN cached \cup {CacheKey(texts)} |->
                   IF k = CacheKey(texts)
                   THEN [i \in 1..Len(texts) |-> <<0, 0, 0, 0>>]
                   ELSE cached[k]]]

\* the call ends in the provider's fault on the batch texts: nothing is
\* returned and line 30 is not reached
Faulted(cached, texts) ==
    [error |-> "provider fault", returned |-> FALSE, failed |-> texts,
     result |-> <<>>, cache |-> cached]

\* the call ends as it does without a fault of the provider; r.raised is an
\* IndexError on embeddings the cache served
Completed(r, result) ==
    [error |-> IF r.raised THEN "IndexError" ELSE None, returned |-> ~r.raised,
     failed |-> <<>>, result |-> result, cache |-> r.cache]

CompletedGroups(r) == Completed(r, r.groups)

CompletedClusters(r) == Completed(r, r.result)

\* cluster_inputs(inputs) with a provider that may fail; the one call of
\* get_embeddings is line 26
ClusterInputsOrFault(cached, model, fails, inputs) ==
    IF Len(inputs) >= 2 /\ Misses(cached, TextsOf(inputs)) /\ fails = 1
    THEN Faulted(cached, TextsOf(inputs))
    ELSE CompletedGroups(ClusterInputs(cached, model, inputs))

\* existing_cluster_texts, lines 126-133
ExistingClusterTexts(previous_clusters) ==
    [c \in 1..Len(previous_clusters) |-> ClusterText(previous_clusters[c])]

\* the three awaits of cluster_inputs_with_history past line 115: lines 120,
\* 136 and 185, each reached when the ones before it returned.  first and
\* second are get_embeddings of the new texts and, after it, of the cluster
\* texts; h is the call without a fault, whose unassigned items line 185
\* clusters
WithHistoryOrFault(cached, fails, inputs, previous_clusters, first, second, h) ==
    IF ~first.hit /\ fails = 1
    THEN Faulted(cached, TextsOf(inputs))
    ELSE IF ~second.hit /\ fails = (IF first.hit THEN 1 ELSE 2)
    THEN Faulted(first.cache, ExistingClusterTexts(previous_clusters))
    ELSE IF /\ Len(h.unassigned) >= 2
            /\ Misses(second.cache, TextsOf(ItemsAt(inputs, h.unassigned)))
            /\ fails = 1 + (IF first.hit THEN 0 ELSE 1) + (IF second.hit THEN 0 ELSE 1)
    THEN Faulted(second.cache, TextsOf(ItemsAt(inputs, h.unassigned)))
    ELSE CompletedClusters(h)

\* cluster_inputs_with_history(inputs, previous_clusters, threshold) with a
\* provider that may fail
ClusterInputsWithHistoryOrFault(cached, model, fails, inputs, previous_clusters, threshold) ==
    IF Len(inputs) = 0
    THEN CompletedClusters(ClusterInputsWithHistory(cached, model, inputs,
                                                    previous_clusters, threshold))
    ELSE IF Len(previous_clusters) = 0
    THEN IF Len(inputs) >= 2 /\ Misses(cached, TextsOf(inputs)) /\ fails = 1
         THEN Faulted(cached, TextsOf(inputs))
         ELSE CompletedClusters(ClusterInputsWithHistory(cached, model, inputs,
                                                         previous_clusters, threshold))
    ELSE WithHistoryOrFault(cached, fails, inputs, previous_clusters,
             GetEmbeddings(cached, model, TextsOf(inputs)),
             GetEmbeddings(GetEmbeddings(cached, model, TextsOf(inputs)).cache,
                           model, ExistingClusterTexts(previous_clusters)),
             ClusterInputsWithHistory(cached, model, inputs, previous_clusters,
                                      threshold))

\* the ContextEnvelope of a request without session and without alternative
\* interpretations; input_id, timestamp, metadata and reasoning_trace are
\* left out
ContextEnvelope(cluster_envelopes, r) ==
    Completed(r, [cluster_envelopes |-> cluster_envelopes,
                  conversation_history |-> EmptyHistory,
                  alternative_interpretations |-> <<>>,
                  conflicts |-> <<>>,
                  cluster_relationships |-> r.relationships,
                  estimated_complexity |-> AssessComplexity(cluster_envelopes)])

\* construct_envelope from the envelopes of line 44 on, with a provider that
\* may fail; the one call of get_embeddings is line 191 in
\* _analyze_cluster_relationships
EnvelopeOrFault(cached, model, fails, cluster_envelopes) ==
    IF /\ Len(cluster_envelopes) >= 2
       /\ Misses(cached, ClusterTexts(cluster_envelopes))
       /\ fails = 1
    THEN Faulted(cached, ClusterTexts(cluster_envelopes))
    ELSE ContextEnvelope(cluster_envelopes,
                         AnalyzeClusterRelationships(cached, model, cluster_envelopes))

\* construct_envelope(input_items, clusters, metadata, input_id)
ConstructEnvelopeOrFault(cached, model, fails, clusters) ==
    EnvelopeOrFault(cached, model, fails, BuildClusterEnvelopes(clusters))

(***************************************************************************)
(* SpecFault: one call of one of the three functions, with and without a   *)
(* fault of the provider, on a cache that is empty or holds the batch of   *)
(* an earlier call of get_embeddings.                                      *)
(***************************************************************************)

\* the provider's model: the vectors of BaseModel, and V4 for other texts
FaultModel(texts) ==
    [t \in texts |-> IF t \in DOMAIN BaseModel THEN BaseModel[t] ELSE V4]

\* what a session may hold before the call
FaultPrevious == {<<>>} \cup SavedClusters

\* the numbers of the encode call that raises; 0 for none
Fails == 0..3

FaultCall(op, fails, texts, before, r) ==
    [op |-> op, fails |-> fails, texts |-> texts, before |-> before,
     error |-> r.error, returned |-> r.returned, failed |-> r.failed,
     result |-> r.result]

\* the batches an earlier call may have embedded
WarmBatches == {<<"a", "b">>, <<"b", "c">>, <<"a">>, <<"b">>}

\* the caches the call may find
WarmCaches ==
    {<<>>} \cup {GetEmbeddings(<<>>, FaultModel(Range(texts)), texts).cache :
                    texts \in WarmBatches}

InitFault ==
    /\ sessions = <<>> /\ requests = 0 /\ log = <<>>
    /\ cache \in WarmCaches
    /\ call = [op |-> "none", error |-> None]

Answered(op, fails, texts, r) ==
    /\ call' = FaultCall(op, fails, texts, cache, r)
    /\ cache' = r.cache

CallClusterInputsOrFault ==
    /\ call.op = "none"
    /\ \E inputs \in SeqsUpTo(PoolItems, MaxNew), fails \in Fails :
          Answered("cluster_inputs", fails, TextsOf(inputs),
                   ClusterInputsOrFault(cache, FaultModel(Range(TextsOf(inputs))),
                                        fails, inputs))
    /\ UNCHANGED <<sessions, requests, log>>

CallClusterInputsWithHistoryOrFault ==
    /\ call.op = "none"
    /\ \E inputs \in SeqsUpTo(PoolItems, MaxNew),
          previous_clusters \in FaultPrevious, fails \in Fails :
          Answered("cluster_inputs_with_history", fails, TextsOf(inputs),
                   ClusterInputsWithHistoryOrFault(
                       cache, FaultModel(TextsOfMerge(inputs, previous_clusters)),
                       fails, inputs, previous_clusters, DEFAULT_HISTORY_THRESHOLD))
    /\ UNCHANGED <<sessions, requests, log>>

CallConstructEnvelopeOrFault ==
    /\ call.op = "none"
    /\ \E clusters \in SeqsUpTo(BuiltClusters, MaxPrev), fails \in Fails :
          Answered("construct_envelope", fails,
                   ClusterTexts(BuildClusterEnvelopes(clusters)),
                   ConstructEnvelopeOrFault(
                       cache,
                       FaultModel(Range(ClusterTexts(BuildClusterEnvelopes(clusters)))),
                       fails, clusters))
    /\ UNCHANGED <<sessions, requests, log>>

NextFault ==
    \/ CallClusterInputsOrFault
    \/ CallClusterInputsWithHistoryOrFault
    \/ CallConstructEnvelopeOrFault

SpecFault == InitFault /\ [][NextFault]_vars

\* C30: a fault raised by the embedding provider during cluster_inputs,
\* cluster_inputs_with_history or the constructor's relationship analysis
\* reaches the caller as that fault: nothing is returned, no cache entry is
\* stored for the batch that failed, and the cache holds only what it held
\* before and what the function's earlier batches stored; a call in which
\* the provider raised never returns.
ProviderFaultPropagates ==
    /\ call.error = "provider fault" =>
          /\ ~call.returned /\ call.result = <<>>
          /\ CacheKey(call.failed) \notin DOMAIN cache
          /\ \A k \in DOMAIN call.before : k \in DOMAIN cache /\ cache[k] = call.before[k]
          /\ \A k \in DOMAIN cache :
                \A i \in 1..Len(cache[k]) : cache[k][i] \in Vecs
    /\ (call.op # "none" /\ call.fails = 1 /\ Len(call.texts) >= 2
          /\ CacheKey(call.texts) \notin DOMAIN call.before) =>
          (call.error = "provider fault" /\ call.failed = call.texts)

\* C30 witness: cluster_inputs_with_history embedded the new texts, the
\* provider raised on the cluster texts, and the cache holds the new texts'
\* entry and none for the cluster texts
ProviderFaultPropagatesWitness ==
    /\ call.op = "cluster_inputs_with_history" /\ call.fails = 2
    /\ call.error = "provider fault" /\ ~call.returned
    /\ call.texts = <<"b", "c">> /\ call.failed = <<"a">>
    /\ DOMAIN call.before = {}
    /\ DOMAIN cache = {"b|c"}

(***************************************************************************)
(* Properties of the verdict and the questions, checked under SpecResolve. *)
(***************************************************************************)

\* C38: whenever analyze_and_resolve returns needs_clarification = false the
\* returned question list is empty, on every path: no input items,
\* structured reply with CLEAR or low confidence, free-text fallback without
\* the ambiguity marker, and service fault.
NoQuestionsWhenClear ==
    (call.op = "analyze_and_resolve" /\ ~call.raised /\ ~call.needs_clarification) =>
        call.questions = <<>>

\* C38 witness: a free-text reply without the marker, with a question header
\* and a long line under it, was answered with no clarification and no
\* question
NoQuestionsWhenClearWitness ==
    /\ call.op = "analyze_and_resolve" /\ call.called
    /\ call.reply.kind = "text" /\ ~call.reply.marker
    /\ Len(call.reply.lines) >= 2
    /\ call.reply.lines[1] = "header" /\ call.reply.lines[2] = "long"
    /\ ~call.needs_clarification /\ call.questions = <<>>

\* a structured reply asking for clarification at confidence 0.79 with two
\* questions was answered with no clarification and no question
NoQuestionsWhenClearLowConfidence ==
    /\ call.op = "analyze_and_resolve" /\ call.called
    /\ call.reply.kind = "json" /\ call.reply.decision = "NEEDS_CLARIFICATION"
    /\ call.reply.confidence_type = "number" /\ call.reply.confidence = 79
    /\ Len(call.reply.questions) = 2
    /\ ~call.needs_clarification /\ call.questions = <<>>

(***************************************************************************)
(* The extreme pairs of relationship analysis, checked under SpecRelations. *)
(***************************************************************************)

\* the two pairs reported are keys of the map and the two similarities
\* reported are the values under them
ExtremesAreEntries(r) ==
    /\ r.most_similar_pair \in DOMAIN r.pairwise_similarities
    /\ r.least_similar_pair \in DOMAIN r.pairwise_similarities
    /\ r.max_similarity = r.pairwise_similarities[r.most_similar_pair]
    /\ r.min_similarity = r.pairwise_similarities[r.least_similar_pair]

\* C39: for n >= 2 clusters and any pairwise similarities in [-1, 1],
\* including the bounds, most_similar_pair and least_similar_pair are both
\* keys of pairwise_similarities (never null), and max_similarity and
\* min_similarity equal the values stored under those two keys.
ExtremePairsAreKeys ==
    (/\ call.op = "analyze_cluster_relationships" /\ call.done
     /\ Len(call.cluster_envelopes) >= 2 /\ ~call.returned.raised) =>
        ExtremesAreEntries(call.returned.relationships)

\* C39 where some pair has a similarity above -1: both pairs are keys and
\* both values are the stored ones, also when every similarity is 1
ExtremePairsAreKeysAboveFloor ==
    (/\ call.op = "analyze_cluster_relationships" /\ call.done
     /\ Len(call.cluster_envelopes) >= 2 /\ ~call.returned.raised
     /\ AboveFloor) =>
        ExtremesAreEntries(call.returned.relationships)

\* three envelopes with one vector, every similarity 1, were analysed and
\* the first pair is both the most and the least similar
ExtremePairsAreKeysAboveFloorWitness ==
    /\ call.op = "analyze_cluster_relationships" /\ call.done
    /\ Len(call.cluster_envelopes) = 3
    /\ \A p \in IndexPairs : SimilarityOf(p[1], p[2]) = [num |-> 1, den2 |-> 1]
    /\ call.returned.relationships.most_similar_pair = "0-1"
    /\ call.returned.relationships.least_similar_pair = "0-1"

(***************************************************************************)
(* Sessions are apart, checked under SpecStore.                            *)
(***************************************************************************)

\* the operations that change a session
ChangeOps == WriteOps \cup {"clear_session"}

\* C40: every store operation on one session (add_input, add_response,
\* save_clusters, add_topic, update_preferences, clear_session) leaves what
\* get_clusters and get_history return for every other session unchanged.
OtherSessionsUnchanged ==
    [][call'.op \in ChangeOps =>
          \A s \in StoreIds \ {call'.session_id} :
              /\ s \in DOMAIN sessions' <=> s \in DOMAIN sessions
              \* both return their empty result for a session without record,
              \* and the same as before for a record left as it was
              /\ s \in DOMAIN sessions =>
                    \/ sessions'[s] = sessions[s]
                    \/ /\ GetClusters(sessions', s) = GetClusters(sessions, s)
                       /\ \A limit \in Limits :
                             GetHistory(sessions', s, limit) = GetHistory(sessions, s, limit)]_vars

\* C40 witness: preferences were written to one session while the other
\* holds clusters and an input and no preferences
OtherSessionsUnchangedWitness ==
    /\ call.op = "update_preferences" /\ call.session_id = "s1"
    /\ call.arg # <<>>
    /\ "s1" \in DOMAIN sessions /\ sessions["s1"].user_preferences = call.arg
    /\ "s2" \in DOMAIN sessions
    /\ sessions["s2"].clusters # <<>> /\ sessions["s2"].inputs # <<>>
    /\ sessions["s2"].user_preferences = <<>>

(***************************************************************************)
(* The frame of cluster_inputs_with_history on its previous_clusters       *)
(* argument (clustering.py 161-179; get_clusters hands out the stored list *)
(* itself, memory_store.py 45).                                            *)
(***************************************************************************)
\* every cluster counts the items it holds
CountsItsItems(clusters) ==
    \A c \in 1..Len(clusters) : clusters[c].item_count = Len(clusters[c].items)

\* C36: cluster_inputs_with_history does not modify its previous_clusters
\* argument: after the call every cluster object of previous_clusters has the
\* items, item_count and input_types it had before, and so still counts the
\* items it holds
PreviousClustersUnmodified ==
    call.op = "cluster_inputs_with_history" =>
        /\ call.previous_after = call.previous_clusters
        /\ CountsItsItems(call.previous_after)

\* what holds instead: the objects of previous_clusters keep bucket_id,
\* item_count and input_types, and their items lists only grow at the end
PreviousClustersOnlyGrow ==
    call.op = "cluster_inputs_with_history" =>
        /\ Len(call.previous_after) = Len(call.previous_clusters)
        /\ \A c \in 1..Len(call.previous_clusters) :
              LET before == call.previous_clusters[c]
                  after == call.previous_after[c]
              IN  /\ after.bucket_id = before.bucket_id
                  /\ after.item_count = before.item_count
                  /\ after.input_types = before.input_types
                  /\ Len(after.items) >= Len(before.items)
                  /\ SubSeq(after.items, 1, Len(before.items)) = before.items

\* a previous cluster left holding more items than it counts
PreviousClusterMiscounts ==
    /\ call.op = "cluster_inputs_with_history"
    /\ ~call.raised
    /\ ~CountsItsItems(call.previous_after)

(***************************************************************************)
(* The clarification verdict across the requests of a session              *)
(* (resolver.py 29-41, input.py 79-108, clustering.py 164-179).            *)
(***************************************************************************)
\* the cluster carries a mark of the resolver: requires_clarification true
\* or confidence_score 0.6
CarriesVerdict(cluster) ==
    \/ IsFlagged(cluster)
    \/ ("confidence_score" \in DOMAIN cluster /\ cluster.confidence_score = 60)

\* request j of the log came after request i on the same session, i ended in
\* NEEDS_CLARIFICATION and j in CLEAR
ClearAfterClarification(i, j) ==
    /\ i < j
    /\ log[i].session_id # None
    /\ log[i].session_id = log[j].session_id
    /\ log[i].needs_clarification
    /\ ~log[j].needs_clarification

\* C35: the verdict is a decision per request and no session state: after a
\* request on a session ended in NEEDS_CLARIFICATION, a later request on the
\* same session whose verdict is CLEAR returns clusters none of which has
\* requires_clarification true or confidence_score 0.6
VerdictIsPerRequest ==
    \A i, j \in 1..Len(log) :
        ClearAfterClarification(i, j) =>
            \A c \in 1..Len(log[j].clusters) : ~CarriesVerdict(log[j].clusters[c])

\* what holds instead: the clusters a CLEAR request returns carry a mark only
\* when an earlier request of the session ended in NEEDS_CLARIFICATION
MarkedOnlyAfterClarification ==
    \A j \in 1..Len(log) :
        (/\ ~log[j].needs_clarification
         /\ \E c \in 1..Len(log[j].clusters) : CarriesVerdict(log[j].clusters[c]))
        => \E i \in 1..Len(log) : ClearAfterClarification(i, j)

\* a CLEAR request handing back a cluster of its own, unmarked, beside a
\* marked one of the request before
ClearRequestReturnsMarked ==
    /\ Len(log) = 2
    /\ ClearAfterClarification(1, 2)
    /\ Len(log[2].clusters) = 2
    /\ CarriesVerdict(log[2].clusters[1])
    /\ ~CarriesVerdict(log[2].clusters[2])

(***************************************************************************)
(* The saved clusters of a session over sequential requests                *)
(* (clustering.py 143-193, input.py 79-87).                                *)
(***************************************************************************)
\* every cluster of before is in after under its bucket_id with its items
\* first, and none of its items is in a cluster of after under another id
GrownFrom(before, after) ==
    \A c \in 1..Len(before) :
        /\ \E d \in 1..Len(after) :
              /\ after[d].bucket_id = before[c].bucket_id
              /\ IsPrefix(before[c].items, after[d].items)
        /\ \A d \in 1..Len(after) :
              after[d].bucket_id # before[c].bucket_id =>
                  Range(before[c].items) \cap Range(after[d].items) = {}

\* C37: over sequential requests on one session without clear_session the
\* saved clusters only grow: a bucket_id once saved is in every later save,
\* the items of a saved cluster are a prefix of that cluster's items in every
\* later save, and no item moves from one cluster to another
SavedClustersOnlyGrow ==
    [][\A s \in SessionIds :
          GrownFrom(GetClusters(sessions, s), GetClusters(sessions', s))]_vars

\* a session whose second request added an item to the first cluster saved
\* and a cluster of its own
SavedClustersOnlyGrowWitness ==
    /\ requests = 2
    /\ Len(log) = 2
    /\ log[1].session_id = "s1" /\ log[2].session_id = "s1"
    /\ Len(log[1].clusters) = 1
    /\ Len(GetClusters(sessions, "s1")) = 2
    /\ GetClusters(sessions, "s1")[1].item_count = 2
    /\ GetClusters(sessions, "s1")[1].items[1].original_data = 1
    /\ GetClusters(sessions, "s1")[1].items[2].original_data = 2
    /\ GetClusters(sessions, "s1")[2].items[1].original_data = 2

(***************************************************************************)
(* SpecGather: the three modality tasks of one request and the join that   *)
(* follows them (input.py 36-99).  process_text never waits (normalize_text *)
(* is a plain function), so its task is over before the audio or document  *)
(* task, which wait for the file and for the executor, can go on; those    *)
(* two end in either order.  A task of an absent modality returns None at  *)
(* once.  Any task of a given modality may raise (validators/payload.py,   *)
(* normalisation/*.py).                                                     *)
(***************************************************************************)
Parts == <<"text", "audio", "document">>

\* a session that has answered one text request before
SessionWithCluster ==
    AddResponse(AddInput(SaveClusters(<<>>, "s1", <<ClusterDict(0, <<InputItem("text", "a", 0)>>)>>),
                         "s1", [input_id |-> 0, text |-> "a", has_audio |-> FALSE, has_document |-> FALSE]),
                "s1", [input_id |-> 0, clusters |-> 1])

\* process_text, process_audio, process_document (lines 36-68): what the
\* task of part p returns, None being the empty list and an item a list of one
ProcessPart(given, p, input_id) ==
    IF given[p] = Absent THEN <<>> ELSE <<InputItem(p, given[p], input_id)>>

\* a mutant of GatherResults: the results come in the order the tasks ended
GatherResultsAsCompleted(given, finished, input_id) ==
    [k \in 1..Len(finished) |-> ProcessPart(given, finished[k], input_id)]

\* results of asyncio.gather (lines 71-73): one per task, in the order of the
\* arguments whatever the order the tasks ended in
GatherResults(given, finished, input_id) ==
    [k \in 1..Len(Parts) |-> ProcessPart(given, Parts[k], input_id)]

\* the request before line 71 has gone on
GatherCall(session_id, text, audio, document, before) ==
    [op |-> "gather", session_id |-> session_id,
     given |-> [text |-> text, audio |-> audio, document |-> document],
     state |-> [text |-> IF text = Absent THEN "absent" ELSE "running",
                audio |-> IF audio = Absent THEN "absent" ELSE "running",
                document |-> IF document = Absent THEN "absent" ELSE "running"],
     finished |-> <<>>, pc |-> "gathering", input_items |-> <<>>,
     newest_text |-> <<>>, previous_clusters |-> <<>>, before |-> before]

InitGather ==
    /\ sessions \in {<<>>, SessionWithCluster}
    /\ requests = 0
    /\ cache = <<>>
    /\ log = <<>>
    /\ \E session_id \in SessionIds \cup {None}, text \in RequestTexts,
          audio \in RequestAudios, document \in RequestDocuments :
          /\ ~(text = Absent /\ audio = Absent /\ document = Absent)   \* line 30
          /\ call = GatherCall(session_id, text, audio, document, sessions)

\* the task of part p may take its next step: the text task goes first
MayRun(p) ==
    /\ call.op = "gather"
    /\ call.state[p] = "running"
    /\ p # "text" => call.state["text"] # "running"

\* the task of part p returns its item
FinishPart(p) ==
    /\ MayRun(p)
    /\ call' = [call EXCEPT !.state[p] = "done", !.finished = Append(@, p)]
    /\ UNCHANGED <<sessions, requests, cache, log>>

\* the task of part p raises: gather hands the exception to line 71 at once
\* and the request ends there; the other tasks are left running
FailPart(p) ==
    /\ MayRun(p)
    /\ call' = [call EXCEPT !.state[p] = "failed",
                            !.pc = IF @ = "gathering" THEN "raised" ELSE @]
    /\ UNCHANGED <<sessions, requests, cache, log>>

\* lines 75-167 once gather has returned; newest_text is what line 20 of the
\* resolver takes
Joined(input_items, previous_clusters, needs_clarification, h) ==
    /\ Handled(call.session_id, call.given["text"], call.given["audio"],
               call.given["document"], needs_clarification, h)
    /\ call' = [call EXCEPT
           !.pc = "clustered",
           !.input_items = input_items,
           !.previous_clusters = previous_clusters,
           !.newest_text = <<input_items[Len(input_items)].normalized_text>>]
    /\ requests' = requests + 1

\* gather returns when every task has returned
JoinAndCluster ==
    /\ call.op = "gather"
    /\ call.pc = "gathering"
    /\ \A p \in Range(Parts) : call.state[p] \in {"absent", "done"}
    /\ \E needs_clarification \in BOOLEAN :
        \E model \in Models(TextsOfMerge(Flatten(GatherResults(call.given, call.finished, requests + 1)),
                                         GetClusters(sessions, call.session_id))) :
            Joined(Flatten(GatherResults(call.given, call.finished, requests + 1)),
                   GetClusters(sessions, call.session_id),
                   needs_clarification,
                   ClusterInputsWithHistory(cache, model,
                       Flatten(GatherResults(call.given, call.finished, requests + 1)),
                       GetClusters(sessions, call.session_id),
                       DEFAULT_HISTORY_THRESHOLD))

NextGather ==
    \/ \E p \in Range(Parts) : FinishPart(p)
    \/ \E p \in Range(Parts) : FailPart(p)
    \/ JoinAndCluster

SpecGather == InitGather /\ [][NextGather]_vars

\* C32: clustering starts only after every task has finished; the items it
\* gets are in the order text, audio, document, the absent ones left out,
\* whatever the order the tasks ended in, so the text the resolver takes as
\* newest is that of the last given modality; and when a task fails there
\* is no clustering and no write to the history
GatherJoinsInOrder ==
    call.op = "gather" =>
        /\ call.pc = "clustered" =>
              /\ \A p \in Range(Parts) : call.state[p] \in {"absent", "done"}
              /\ call.input_items =
                     InputItems(call.given["text"], call.given["audio"],
                                call.given["document"], requests)
              /\ call.newest_text =
                     <<IF call.given["document"] # Absent THEN call.given["document"]
                       ELSE IF call.given["audio"] # Absent THEN call.given["audio"]
                       ELSE call.given["text"]>>
        /\ (\E p \in Range(Parts) : call.state[p] = "failed") =>
              /\ call.pc = "raised"
              /\ call.input_items = <<>>
              /\ sessions = call.before
              /\ cache = <<>>
              /\ log = <<>>

\* the document task ended before the audio task, and the items are in the
\* order text, audio, document all the same
GatherJoinsInOrderWitness ==
    /\ call.op = "gather"
    /\ call.pc = "clustered"
    /\ call.finished = <<"text", "document", "audio">>
    /\ Len(call.input_items) = 3
    /\ call.input_items[2].input_type = "audio"
    /\ call.input_items[3].input_type = "document"
    /\ call.session_id = "s1"
    /\ call.previous_clusters # <<>>

\* the audio task failed after the document task had returned: the request
\* ended at line 71 and the session is as it was
GatherRaised ==
    /\ call.op = "gather"
    /\ call.pc = "raised"
    /\ call.state["audio"] = "failed"
    /\ call.state["document"] = "done"
    /\ call.session_id = "s1"
    /\ sessions = SessionWithCluster

(***************************************************************************)
(* SpecHandler: up to MaxRequests requests of input_unified on session s1, *)
(* running as tasks of one event loop.  A task runs from one wait to the   *)
(* next without interruption.  A request is observed at the waits around   *)
(* which it touches the store: the wait for the embeddings inside           *)
(* cluster_inputs_with_history (embeddings.py 26, taken only when a batch   *)
(* is not cached), the wait for the reasoning service inside                *)
(* analyze_and_resolve (resolver.py 22), and the waits for the responses    *)
(* (input.py 128).  What a request does between two of these is one step.   *)
(*                                                                         *)
(* Cluster dicts and their items lists are objects: get_clusters returns    *)
(* the stored list (memory_store.py 45), cluster.copy() of clustering.py    *)
(* 164 shares the items list of the cluster it copies, clusters.copy() of   *)
(* resolver.py 29 shares the dicts.  call.dicts and call.lists hold the     *)
(* objects, a dict naming its items list by its index; a list of clusters   *)
(* is a sequence of indices into call.dicts.  sessions holds, as in the     *)
(* other specifications, the values the stored objects have.  What the     *)
(* requests return is not kept.                                            *)
(***************************************************************************)
Handlers == 1..MaxRequests

\* the cluster dict d as a value
Value(dicts, lists, d) == [dicts[d] EXCEPT !.items = lists[dicts[d].items]]

\* the list of clusters ids as a value
Values(dicts, lists, ids) == [k \in 1..Len(ids) |-> Value(dicts, lists, ids[k])]

\* the previous clusters that took new items, lines 162-176
Copied(held, h) ==
    IF h.raised THEN <<>>
    ELSE Ascending({k \in 1..Len(held) : h.matched_by[k] # <<>>})

\* the index of x in seq
PositionIn(seq, x) == CHOOSE j \in 1..Len(seq) : seq[j] = x

\* the objects after cluster_inputs_with_history, having been given the list
\* held, has come to h: the items lists of the matched clusters have grown
\* (line 166), each matched cluster has a copy that shares its items list
\* (lines 164, 172-176), each new cluster is a new dict with a new list
\* (lines 183-191); clusters is the list returned, created its new clusters
MergedHeap(dicts, lists, held, h) ==
    LET n == Len(held)
        copied == Copied(held, h)
        fresh == IF h.raised THEN 0 ELSE Len(h.result) - n
    IN  [dicts |->
             dicts \o
             [j \in 1..Len(copied) |->
                 [h.result[copied[j]] EXCEPT !.items = dicts[held[copied[j]]].items]] \o
             [j \in 1..fresh |-> [h.result[n + j] EXCEPT !.items = Len(lists) + j]],
         lists |->
             [l \in 1..Len(lists) |->
                 IF \E k \in 1..n : dicts[held[k]].items = l
                 THEN h.previous_after[CHOOSE k \in 1..n : dicts[held[k]].items = l].items
                 ELSE lists[l]] \o
             [j \in 1..fresh |-> h.result[n + j].items],
         clusters |->
             IF h.raised THEN <<>>
             ELSE [k \in 1..Len(h.result) |->
                      IF k > n THEN Len(dicts) + Len(copied) + k - n
                      ELSE IF h.matched_by[k] # <<>>
                      THEN Len(dicts) + PositionIn(copied, k)
                      ELSE held[k]],
         created |-> {Len(dicts) + Len(copied) + j : j \in 1..fresh}]

\* a request not yet made
Idle ==
    [pc |-> "idle", text |-> Absent, audio |-> Absent, input_items |-> <<>>,
     held |-> <<>>, clusters |-> <<>>, created |-> {},
     needs_clarification |-> FALSE, trace |-> <<>>]

\* request r after line 79: it holds the stored list
Entered(r, text, audio, stored) ==
    [Idle EXCEPT !.pc = "merging", !.text = text, !.audio = audio,
                 !.input_items = InputItems(text, audio, Absent, r),
                 !.held = stored, !.trace = <<"get_clusters">>]

InitHandler ==
    /\ sessions = <<>>
    /\ requests = 0
    /\ cache = <<>>
    /\ log = <<>>
    /\ call = [op |-> "input_unified", dicts |-> <<>>, lists |-> <<>>,
               stored |-> <<>>, last_saved |-> 0,
               reqs |-> [r \in Handlers |-> Idle]]

\* lines 83-99 of request r from the return of cluster_inputs_with_history
\* (h, leaving the objects m) to the wait inside analyze_and_resolve: line 87
\* stores the list returned; a fault ends the request before it
MergeReturns(r, req, h, m) ==
    /\ cache' = h.cache
    /\ call' = [call EXCEPT
           !.dicts = m.dicts,
           !.lists = m.lists,
           !.stored = IF h.raised THEN @ ELSE m.clusters,
           !.last_saved = IF h.raised THEN @ ELSE r,
           !.reqs[r] = [req EXCEPT
               !.pc = IF h.raised THEN "raised" ELSE "resolving",
               !.clusters = m.clusters,
               !.created = m.created,
               !.trace = @ \o (IF h.raised THEN <<>>
                               ELSE <<"cluster_inputs_with_history",
                                      "save_clusters", "get_history">>)]]
    /\ sessions' =
          IF h.raised
          THEN MergedInPlace(sessions, "s1", Values(m.dicts, m.lists, call.stored))
          ELSE SaveClusters(sessions, "s1", Values(m.dicts, m.lists, m.clusters))

\* request r, which carries a text and maybe an audio, from line 30 on: it
\* waits inside the merge when a batch has to be embedded (h leaves the cache
\* larger), and goes on to line 99 otherwise.  The provider's model is
\* FaultModel.
StartWith(r, req, h) ==
    IF h.cache # cache
    THEN /\ call' = [call EXCEPT !.reqs[r] = req]
         /\ UNCHANGED <<sessions, cache>>
    ELSE MergeReturns(r, req, h, MergedHeap(call.dicts, call.lists, req.held, h))

Start(r) ==
    /\ call.op = "input_unified"
    /\ call.reqs[r].pc = "idle"
    /\ \E text \in RequestTexts \ {Absent}, audio \in RequestAudios :
        /\ StartWith(r, Entered(r, text, audio, call.stored),
                     ClusterInputsWithHistory(cache,
                         FaultModel(TextsOfMerge(InputItems(text, audio, Absent, r),
                                                 Values(call.dicts, call.lists, call.stored))),
                         InputItems(text, audio, Absent, r),
                         Values(call.dicts, call.lists, call.stored),
                         DEFAULT_HISTORY_THRESHOLD))
    /\ requests' = requests + 1
    /\ UNCHANGED log

\* what cluster_inputs_with_history comes to for request r on the list it
\* read at line 79, with the objects as they are now
MergeOf(r) ==
    ClusterInputsWithHistory(cache,
        FaultModel(TextsOfMerge(call.reqs[r].input_items,
                                Values(call.dicts, call.lists, call.reqs[r].held))),
        call.reqs[r].input_items,
        Values(call.dicts, call.lists, call.reqs[r].held),
        DEFAULT_HISTORY_THRESHOLD)

\* the embeddings request r waited for are there
Resume(r) ==
    /\ call.op = "input_unified"
    /\ call.reqs[r].pc = "merging"
    /\ MergeReturns(r, call.reqs[r], MergeOf(r),
                    MergedHeap(call.dicts, call.lists, call.reqs[r].held, MergeOf(r)))
    /\ UNCHANGED <<requests, log>>

\* the dicts after lines 29-33 of the resolver have flagged those of clusters
FlaggedDicts(dicts, clusters) ==
    [d \in 1..Len(dicts) |->
        IF d \in Range(clusters) THEN Flagged(dicts)[d] ELSE dicts[d]]

\* a mutant of ClarificationExit: the input is recorded all the same
ClarificationExitRecorded(store, session_id, input_id, text, audio) ==
    AddInput(store, session_id,
             [input_id |-> input_id, text |-> text,
              has_audio |-> audio # Absent, has_document |-> FALSE])

\* lines 102-108: the request returns the questions; nothing is recorded
ClarificationExit(store, session_id, input_id, text, audio) == store

\* analyze_and_resolve of request r returns NEEDS_CLARIFICATION: the dicts of
\* its clusters are flagged, the request returns at line 103
Clarify(r) ==
    /\ call' = [call EXCEPT
           !.dicts = FlaggedDicts(@, call.reqs[r].clusters),
           !.reqs[r] = [@ EXCEPT !.pc = "done", !.needs_clarification = TRUE,
                                 !.trace = @ \o <<"analyze_and_resolve", "return">>]]
    /\ sessions' =
          ClarificationExit(
              MergedInPlace(sessions, "s1",
                            Values(FlaggedDicts(call.dicts, call.reqs[r].clusters),
                                   call.lists, call.stored)),
              "s1", r, call.reqs[r].text, call.reqs[r].audio)
    /\ UNCHANGED <<cache, log>>

\* analyze_and_resolve of request r returns CLEAR: construct_envelope builds
\* the envelope, rel being what its relationship analysis came to, and the
\* request goes on to wait for the first response
Construct(r, rel) ==
    /\ call' = [call EXCEPT
           !.reqs[r] = [@ EXCEPT
               !.pc = IF rel.raised THEN "raised" ELSE "generating",
               !.trace = @ \o <<"analyze_and_resolve"
                                >> \o (IF rel.raised THEN <<>>
                                       ELSE <<"construct_envelope">>)]]
    /\ cache' = rel.cache
    /\ UNCHANGED <<sessions, log>>

\* the reasoning service has answered request r
Resolve(r) ==
    /\ call.op = "input_unified"
    /\ call.reqs[r].pc = "resolving"
    /\ \/ Clarify(r)
       \/ Construct(r, AnalyzeClusterRelationships(cache,
                           FaultModel(Range(ClusterTexts(BuildClusterEnvelopes(
                               Values(call.dicts, call.lists, call.reqs[r].clusters))))),
                           BuildClusterEnvelopes(
                               Values(call.dicts, call.lists, call.reqs[r].clusters))))
    /\ UNCHANGED requests

\* lines 115-167: one response per cluster, then the input and the response
\* are recorded and the request returns
Generate(r) ==
    /\ call.op = "input_unified"
    /\ call.reqs[r].pc = "generating"
    /\ call' = [call EXCEPT
           !.reqs[r] = [@ EXCEPT
               !.pc = "done",
               !.trace = @ \o [k \in 1..Len(call.reqs[r].clusters) |-> "call_llm"]
                           \o <<"add_input", "add_response", "return">>]]
    /\ sessions' =
          AddResponse(
              AddInput(sessions, "s1",
                       [input_id |-> r, text |-> call.reqs[r].text,
                        has_audio |-> call.reqs[r].audio # Absent,
                        has_document |-> FALSE]),
              "s1", [input_id |-> r, clusters |-> Len(call.reqs[r].clusters)])
    /\ UNCHANGED <<requests, cache, log>>

NextHandler ==
    \E r \in Handlers : Start(r) \/ Resume(r) \/ Resolve(r) \/ Generate(r)

SpecHandler == InitHandler /\ [][NextHandler]_vars

\* every a of the trace comes before every b of it
Precedes(trace, a, b) ==
    \A j \in 1..Len(trace) :
        trace[j] = b => \A i \in j..Len(trace) : trace[i] # a

\* C34: within a request the resolver works on a copy of the cluster set and
\* the caller saves the cluster set only afterwards: save_clusters of a
\* request is never executed before analyze_and_resolve of that request has
\* returned
SaveFollowsResolve ==
    call.op = "input_unified" =>
        \A r \in Handlers :
            "save_clusters" \in Range(call.reqs[r].trace) =>
                /\ "analyze_and_resolve" \in Range(call.reqs[r].trace)
                /\ Precedes(call.reqs[r].trace, "analyze_and_resolve", "save_clusters")

\* what holds instead: the one save of a request comes before its resolver
\* returns, and the resolver's marks are in the stored clusters all the same
ResolveFollowsSave ==
    call.op = "input_unified" =>
        \A r \in Handlers :
            /\ "analyze_and_resolve" \in Range(call.reqs[r].trace) =>
                  "save_clusters" \in Range(call.reqs[r].trace)
            /\ Precedes(call.reqs[r].trace, "save_clusters", "analyze_and_resolve")
            /\ (call.last_saved = r /\ call.reqs[r].needs_clarification) =>
                  \A c \in 1..Len(GetClusters(sessions, "s1")) :
                      IsFlagged(GetClusters(sessions, "s1")[c])

\* a request that saved unmarked clusters, was then told NEEDS_CLARIFICATION,
\* and left its marks in the store without another save
ResolverMarksStoredClusters ==
    /\ call.op = "input_unified"
    /\ requests = 1
    /\ call.reqs[1].pc = "done"
    /\ call.reqs[1].needs_clarification
    /\ call.reqs[1].trace = <<"get_clusters", "cluster_inputs_with_history",
                              "save_clusters", "get_history",
                              "analyze_and_resolve", "return">>
    /\ Len(GetClusters(sessions, "s1")) = 2
    /\ IsFlagged(GetClusters(sessions, "s1")[1])

\* how often stage is in the trace
Count(trace, stage) == Cardinality({i \in 1..Len(trace) : trace[i] = stage})

\* the session holds an input or a response record of request r
Recorded(r) ==
    \/ \E i \in 1..Len(SessionOf(sessions, "s1").inputs) :
          SessionOf(sessions, "s1").inputs[i].input_id = r
    \/ \E i \in 1..Len(SessionOf(sessions, "s1").responses) :
          SessionOf(sessions, "s1").responses[i].input_id = r

\* C33: a request passes clustering or merge, then ambiguity resolution, then
\* either the early exit or context construction followed by response
\* generation; on NEEDS_CLARIFICATION it returns at once, with no envelope,
\* no response and no input or response record in the session; otherwise the
\* envelope is built before any response is generated and the two records
\* are appended only after all responses exist
StagesInOrder ==
    call.op = "input_unified" =>
        \A r \in Handlers :
            LET trace == call.reqs[r].trace
            IN  /\ Precedes(trace, "cluster_inputs_with_history", "analyze_and_resolve")
                /\ Precedes(trace, "analyze_and_resolve", "construct_envelope")
                /\ Precedes(trace, "analyze_and_resolve", "return")
                /\ Precedes(trace, "construct_envelope", "call_llm")
                /\ Precedes(trace, "call_llm", "add_input")
                /\ Precedes(trace, "add_input", "add_response")
                /\ "analyze_and_resolve" \in Range(trace) =>
                       "cluster_inputs_with_history" \in Range(trace)
                /\ "call_llm" \in Range(trace) => "construct_envelope" \in Range(trace)
                /\ call.reqs[r].needs_clarification =>
                      /\ call.reqs[r].pc = "done"
                      /\ Range(trace) \cap {"construct_envelope", "call_llm",
                                            "add_input", "add_response"} = {}
                      /\ ~Recorded(r)
                /\ Recorded(r) =>
                      /\ call.reqs[r].pc = "done"
                      /\ Count(trace, "construct_envelope") = 1
                      /\ Count(trace, "call_llm") = Len(call.reqs[r].clusters)
                      /\ Count(trace, "add_input") = 1
                      /\ Count(trace, "add_response") = 1
                /\ (call.reqs[r].pc = "done" /\ ~call.reqs[r].needs_clarification) =>
                      Recorded(r)

\* one request that left at the early exit and one that went through, on
\* two clusters
StagesInOrderWitness ==
    /\ call.op = "input_unified"
    /\ call.reqs[1].pc = "done" /\ call.reqs[2].pc = "done"
    /\ call.reqs[1].needs_clarification
    /\ ~call.reqs[2].needs_clarification
    /\ ~Recorded(1) /\ Recorded(2)
    /\ Count(call.reqs[2].trace, "call_llm") = 2

\* the stored list holds cluster d or a copy of it (a copy shares the items)
Kept(d) ==
    \E k \in 1..Len(call.stored) : call.dicts[call.stored[k]].items = call.dicts[d].items

\* C31: nothing serialises the requests of a session: the clusters saved are
\* those of the request that saved last, built from the list that request
\* read at line 79, whatever has been saved since it read; so two requests
\* may read the same saved set and the later save replaces the earlier
LastSaveWins ==
    (call.op = "input_unified" /\ call.last_saved # 0) =>
        /\ call.stored = call.reqs[call.last_saved].clusters
        /\ GetClusters(sessions, "s1") =
               Values(call.dicts, call.lists, call.reqs[call.last_saved].clusters)
        /\ \A k \in 1..Len(call.stored) :
              \/ call.stored[k] \in call.reqs[call.last_saved].created
              \/ \E j \in 1..Len(call.reqs[call.last_saved].held) :
                    call.dicts[call.stored[k]].items =
                        call.dicts[call.reqs[call.last_saved].held[j]].items

\* the lost update: both requests read the session, still without clusters,
\* before either saved, both have returned their responses and are recorded
\* in the session, and the session's saved clusters lack the cluster the
\* first to save created: no saved item is of that request
LostUpdate ==
    /\ call.op = "input_unified"
    /\ requests = 2
    /\ \A r \in 1..2 : /\ call.reqs[r].pc = "done"
                        /\ ~call.reqs[r].needs_clarification
                        /\ call.reqs[r].held = <<>>
    /\ \E r \in 1..2 : \E d \in call.reqs[r].created : ~Kept(d)
    /\ \E r \in 1..2 :
          \A c \in 1..Len(GetClusters(sessions, "s1")) :
              \A i \in 1..Len(GetClusters(sessions, "s1")[c].items) :
                  GetClusters(sessions, "s1")[c].items[i].original_data # r

====
